---- MODULE Spec2Model ----
(***************************************************************************)
(* A model of the Bluetooth LE MIDI backend of midir                       *)
(* (src/src/backend/bluetooth/mod.rs).                                     *)
(*                                                                         *)
(* Part 1 models the codec: decode_ble_midi, extend_sysex,                 *)
(* expected_data_length, encode_ble_midi_packets and should_ignore, as     *)
(* operators that compute what the Rust functions compute.  Indices are    *)
(* the 0-based indices of the Rust code; a byte is a number in 0..255.     *)
(* An Option is a sequence: None is << >> and Some(v) is <<v>>.            *)
(*                                                                         *)
(* Part 2 models one caller that connects, closes or drops input           *)
(* connections (MidiInput::connect, MidiInputConnection::close), the       *)
(* worker thread that connect spawns (the thread closure, run_input_loop,  *)
(* process_notification) and the BLE stack with the peripheral, whose      *)
(* operations succeed or fail as the environment decides.  The user        *)
(* callback is the one that appends each message it is given to the user   *)
(* data; it returns and does not panic.                                    *)
(*                                                                         *)
(* Part 3 models the encoder called on its own, and one caller that        *)
(* connects an output (MidiOutput::connect, connect_output_port), sends    *)
(* messages (MidiOutputConnection::send) and closes it.                    *)
(***************************************************************************)
EXTENDS Integers, Sequences, FiniteSets, TLC

VARIABLES
    dec_pc,       \* codec harness: "idle", or "decoded" right after decode_ble_midi returned
    dec_state,    \* codec harness: the ParserState of the connection
    dec_before,   \* codec harness: the ParserState as it was when the last payload arrived
    dec_payload,  \* codec harness: the last payload given to decode_ble_midi
    dec_result,   \* codec harness: what decode_ble_midi did with it
    dec_sent,     \* codec harness: the messages the peer packed into the payload
    dec_count,    \* codec harness: number of payloads decoded so far
    caller,       \* where the caller thread is
    midi_input,   \* Some(MidiInput) while the caller holds one
    connection,   \* Some(MidiInputConnection) while the caller holds one
    connect_args, \* the MidiInput and the user data given to the last connect
    outcome,      \* what the last connect or close returned to the caller
    connects,     \* number of connect calls so far
    worker,       \* where the worker thread of the last connect is
    loop_result,  \* Some(result of run_input_loop) once it has returned
    handler,      \* the HandlerData behind the Arc<Mutex<..>>
    thread_result,\* Some(HandlerThreadResult) once the thread closure has returned
    current,      \* Some(notification) while process_notification runs
    pending,      \* the decoded messages the for loop has not reached yet
    processed,    \* the payloads the decoder was called with, this connection
    calls,        \* number of callback invocations, this connection
    stop,         \* the watch channel behind stop_tx and stop_rx
    init_chan,    \* the values sent on init_tx and not received yet
    init_sent,    \* every value sent on init_tx, this connection
    ble,          \* the BLE stack: scan running, link up, notifications subscribed
    stream,       \* the notification stream: "none", "open" or "ended"
    notifications,\* the notifications waiting in the stream
    arrived,      \* number of MIDI notifications the peripheral has sent, this connection
    clock,        \* the latest reading of the monotonic clock (Instant)
    start,        \* the reading the worker took when it entered the loop
    last_stamp,   \* Some(timestamp given to the latest callback invocation), this connection
    flt_pc,       \* filter harness: "idle", "deliver" inside the for loop, "returned" after it
    flt_handler,  \* filter harness: the HandlerData process_notification is called with
    flt_decoded,  \* filter harness: the messages the decoder returned in this call
    flt_pending,  \* filter harness: the decoded messages the for loop has not reached yet
    enc_message,  \* encoder harness: the message given to encode_ble_midi_packets
    enc_packets,  \* encoder harness: the packets it returned
    out_pc,       \* where the caller of the output side is
    midi_output,  \* Some(MidiOutput) while the caller holds one
    out_args,     \* the MidiOutput given to the last MidiOutput::connect
    out_conn,     \* Some(MidiOutputConnection) while the caller holds one
    out_outcome,  \* what the last connect, send or close of the output side returned
    out_ble,      \* the BLE stack as the output side drives it; opened: the link was
                  \* made by the latest connect call; teardown: the calls of the latest close
    out_message,  \* the message given to the last send
    out_packets,  \* the packets the last send encoded
    out_written,  \* the writes the last send made, each with its result
    out_ops       \* number of connect and send calls so far

dec_vars == <<dec_pc, dec_state, dec_before, dec_payload, dec_result, dec_sent, dec_count>>

caller_vars == <<caller, midi_input, connection, connect_args, outcome, connects>>

worker_vars == <<worker, loop_result, handler, thread_result, current, pending,
                 processed, calls>>

chan_vars == <<stop, init_chan, init_sent>>

env_vars == <<ble, stream, notifications, arrived>>

time_vars == <<clock, start, last_stamp>>

life_vars == <<caller_vars, worker_vars, chan_vars, env_vars, time_vars>>

enc_vars == <<enc_message, enc_packets>>

flt_vars == <<flt_pc, flt_handler, flt_decoded, flt_pending>>

out_vars == <<out_pc, midi_output, out_args, out_conn, out_outcome, out_ble,
              out_message, out_packets, out_written, out_ops>>

vars == <<dec_vars, life_vars, flt_vars, enc_vars, out_vars>>

-----------------------------------------------------------------------------
(* Bounds of the model *)

\* longest payload drawn from the full alphabet
MaxLen == 4
\* payloads decoded in a row by one connection of the codec harness
MaxPayloads == 2
\* messages packed into one batched payload
MaxBatch == 2
\* connect calls of the caller
MaxConnects == 2
\* MIDI notifications the peripheral sends to one connection
MaxNotifications == 2
\* notifications waiting in the stream
MaxQueue == 2
\* largest reading of the clock
MaxClock == 1
\* longest message given to the encoder harness
MaxMessageLen == 55
\* connect and send calls of the caller of the output side
MaxOutputOps == 3
\* longest SysEx sent through the encoder: three packets
MaxSysexLen == 38

-----------------------------------------------------------------------------
(* Option and byte helpers *)

None == << >>
Some(v) == <<v>>
Unwrap(o) == o[1]

\* byte & 0x80 != 0
HighBit(byte) == byte >= 128

\* payload[idx] of the Rust slice (0-based)
Byte(payload, idx) == payload[idx + 1]

ParserStateNew == [running_status |-> None, sysex_buffer |-> None]

\* the element of a one-element set.  The({e : r \in {v}}) is `let r = v; e`:
\* v is computed once and named r in e
The(set) == CHOOSE element \in set : TRUE

-----------------------------------------------------------------------------
(* expected_data_length *)

\* as expected_data_length, with Program Change and Channel Pressure given
\* the two data bytes of the other channel messages
expected_data_length_two_for_all(status) ==
    IF status >= 128 /\ status <= 239 THEN Some(2)
    ELSE IF status = 241 THEN Some(1)
    ELSE IF status = 242 THEN Some(2)
    ELSE IF status = 243 THEN Some(1)
    ELSE IF status = 246 THEN Some(0)
    ELSE None

expected_data_length(status) ==
    IF status >= 128 /\ status <= 191 THEN Some(2)
    ELSE IF status >= 192 /\ status <= 223 THEN Some(1)
    ELSE IF status >= 224 /\ status <= 239 THEN Some(2)
    ELSE IF status = 241 THEN Some(1)
    ELSE IF status = 242 THEN Some(2)
    ELSE IF status = 243 THEN Some(1)
    ELSE IF status = 246 THEN Some(0)
    ELSE None

-----------------------------------------------------------------------------
(* extend_sysex: returns the buffer, the next index, the finished flag and   *)
(* the indices of the payload it read                                        *)

RECURSIVE extend_sysex_from(_, _, _, _)
extend_sysex_from(buffer, payload, idx, reads) ==
    IF idx < Len(payload)
    THEN LET byte == Byte(payload, idx) IN
         IF HighBit(byte)
         THEN IF byte = 247
              THEN [buffer |-> Append(buffer, byte), idx |-> idx + 1,
                    finished |-> TRUE, reads |-> reads \cup {idx}]
              ELSE [buffer |-> buffer, idx |-> idx,
                    finished |-> FALSE, reads |-> reads \cup {idx}]
         ELSE extend_sysex_from(Append(buffer, byte), payload, idx + 1, reads \cup {idx})
    ELSE [buffer |-> buffer, idx |-> idx, finished |-> FALSE, reads |-> reads]

extend_sysex(buffer, payload, idx) == extend_sysex_from(buffer, payload, idx, {})

-----------------------------------------------------------------------------
(* decode_ble_midi.  The loop state s is                                     *)
(*   idx, state (the ParserState), messages: the locals of the function;     *)
(*   stopped: the loop was left by break;                                    *)
(*   panicked: an index expression payload[idx] was evaluated with           *)
(*             idx >= payload.len() (Rust panics there);                     *)
(*   reads: the indices at which the payload was read;                       *)
(*   heads: the value of idx at the start of each iteration.                 *)

\* the inner while loop of the default arm (lines 652-665)
RECURSIVE read_data_bytes(_, _, _, _, _, _)
read_data_bytes(message, payload, idx, data_bytes, expected, reads) ==
    IF idx < Len(payload)
    THEN LET byte == Byte(payload, idx) IN
         IF HighBit(byte)
         THEN [message |-> message, idx |-> idx, data_bytes |-> data_bytes,
               reads |-> reads \cup {idx}]
         ELSE IF expected # None /\ data_bytes + 1 >= Unwrap(expected)
              THEN [message |-> Append(message, byte), idx |-> idx + 1,
                    data_bytes |-> data_bytes + 1, reads |-> reads \cup {idx}]
              ELSE read_data_bytes(Append(message, byte), payload, idx + 1,
                                   data_bytes + 1, expected, reads \cup {idx})
    ELSE [message |-> message, idx |-> idx, data_bytes |-> data_bytes, reads |-> reads]

\* match status_byte, arm 0xF0 (lines 623-634)
arm_sysex_start(payload, s) ==
    The({
    [s EXCEPT !.idx = r.idx,
              !.reads = @ \cup r.reads,
              !.messages = IF r.finished THEN Append(@, r.buffer) ELSE @,
              !.state = [running_status |-> None,
                         sysex_buffer |-> IF r.finished THEN None ELSE Some(r.buffer)]]
    : r \in {extend_sysex(<<240>>, payload, s.idx)} })

\* match status_byte, arm 0xF7 (lines 635-643)
arm_sysex_end(payload, s) ==
    [s EXCEPT !.messages = IF s.state.sysex_buffer # None
                           THEN Append(@, Append(Unwrap(s.state.sysex_buffer), 247))
                           ELSE Append(@, <<247>>),
              !.state = [running_status |-> None, sysex_buffer |-> None]]

\* match status_byte, arm status >= 0xF8 (lines 644-647)
arm_real_time(status, s) ==
    [s EXCEPT !.messages = Append(@, <<status>>),
              !.state.running_status = None]

\* as has_all_data, with fewer data bytes than expected accepted as well
has_all_data_or_fewer(data_bytes, expected) == data_bytes <= expected

\* if data_bytes == expected (line 668)
has_all_data(data_bytes, expected) == data_bytes = expected

\* match status_byte, default arm (lines 648-679)
arm_default(payload, status, s) ==
    LET expected == expected_data_length(status) IN
    The({
    LET s1 == [s EXCEPT !.idx = r.idx, !.reads = @ \cup r.reads]
    IN IF expected # None
       THEN IF has_all_data(r.data_bytes, Unwrap(expected))
            THEN [s1 EXCEPT !.messages = Append(@, r.message),
                            !.state.running_status =
                                IF status < 240 THEN Some(status) ELSE None]
            ELSE s1
       ELSE [s1 EXCEPT !.messages = Append(@, r.message),
                       !.state.running_status = None]
    : r \in {read_data_bytes(<<status>>, payload, s.idx, 0, expected, {})} })

\* match status_byte (lines 622-680)
dispatch_status(payload, status, s) ==
    IF status = 240 THEN arm_sysex_start(payload, s)
    ELSE IF status = 247 THEN arm_sysex_end(payload, s)
    ELSE IF status >= 248 THEN arm_real_time(status, s)
    ELSE arm_default(payload, status, s)

\* let mut status_byte = payload[idx]; ... (lines 610-620)
read_status(payload, s) ==
    IF ~(s.idx < Len(payload))
    THEN [s EXCEPT !.panicked = TRUE, !.reads = @ \cup {s.idx}]
    ELSE The({
            IF HighBit(status_byte)
            THEN dispatch_status(payload, status_byte, [s1 EXCEPT !.idx = @ + 1])
            ELSE IF s.state.running_status # None
                 THEN dispatch_status(payload, Unwrap(s.state.running_status), s1)
                 ELSE [s1 EXCEPT !.idx = @ + 1]
         : status_byte \in {Byte(payload, s.idx)},
           s1 \in {[s EXCEPT !.reads = @ \cup {s.idx}]} })

\* if state.sysex_buffer.is_some() { ... } (lines 593-608)
continue_sysex(payload, s) ==
    IF s.state.sysex_buffer # None
    THEN The({
         LET progressed == r.idx # s.idx
             s1 == [s EXCEPT !.idx = r.idx,
                             !.reads = @ \cup r.reads,
                             !.messages = IF r.finished THEN Append(@, r.buffer) ELSE @,
                             !.state.sysex_buffer =
                                 IF r.finished THEN None ELSE Some(r.buffer)]
         IN IF progressed THEN s1 ELSE The({read_status(payload, s2) : s2 \in {s1}})
         : r \in {extend_sysex(Unwrap(s.state.sysex_buffer), payload, s.idx)} })
    ELSE read_status(payload, s)

\* as timestamp_ends_payload, with the check left out
timestamp_ends_payload_unchecked(payload, idx) == FALSE

\* if idx >= payload.len() { break; } after the timestamp byte (lines 589-591)
timestamp_ends_payload(payload, idx) == idx >= Len(payload)

\* one iteration of the while loop (lines 581-680)
decode_iteration(payload, s) ==
    LET byte == Byte(payload, s.idx)
        s0 == [s EXCEPT !.reads = @ \cup {s.idx}, !.heads = Append(@, s.idx)]
    IN IF ~HighBit(byte)
       THEN [s0 EXCEPT !.idx = @ + 1]
       ELSE IF timestamp_ends_payload(payload, s.idx + 1)
            THEN [s0 EXCEPT !.idx = @ + 1, !.stopped = TRUE]
            ELSE The({continue_sysex(payload, s1) : s1 \in {[s0 EXCEPT !.idx = @ + 1]}})

\* while idx < payload.len() { ... } (line 580)
RECURSIVE decode_loop(_, _)
decode_loop(payload, s) ==
    IF s.idx < Len(payload) /\ ~s.stopped /\ ~s.panicked
    THEN The({decode_loop(payload, next) : next \in {decode_iteration(payload, s)}})
    ELSE s

\* let mut idx = 1; // skip packet header (line 578)
decode_start_index == 1

decode_ble_midi(payload, state) ==
    decode_loop(payload, [idx |-> decode_start_index, state |-> state, messages |-> << >>,
                          stopped |-> FALSE, panicked |-> FALSE,
                          reads |-> {}, heads |-> << >>])

-----------------------------------------------------------------------------
(* encode_ble_midi_packets *)

MAX_PAYLOAD == 18

Min(a, b) == IF a < b THEN a ELSE b

\* as encode_from, with the timestamp byte only in the first packet
RECURSIVE encode_from_one_timestamp(_, _, _)
encode_from_one_timestamp(message, offset, packets) ==
    IF offset < Len(message)
    THEN LET end == Min(offset + MAX_PAYLOAD, Len(message))
             packet == (IF offset = 0 THEN <<128, 128>> ELSE <<128>>)
                       \o SubSeq(message, offset + 1, end)
         IN encode_from_one_timestamp(message, end, Append(packets, packet))
    ELSE packets

RECURSIVE encode_from(_, _, _)
encode_from(message, offset, packets) ==
    IF offset < Len(message)
    THEN LET end == Min(offset + MAX_PAYLOAD, Len(message))
             packet == <<128, 128>> \o SubSeq(message, offset + 1, end)
         IN encode_from(message, end, Append(packets, packet))
    ELSE packets

\* as encode_ble_midi_packets, with the whole message put into one packet
encode_one_packet(message) ==
    IF Len(message) = 0 THEN << >> ELSE << <<128, 128>> \o message >>

encode_ble_midi_packets(message) ==
    IF Len(message) = 0 THEN << >> ELSE encode_from(message, 0, << >>)

-----------------------------------------------------------------------------
(* The inputs of the codec harness *)

\* a data byte, a timestamp/Note-Off byte, Program Change, SysEx start, an
\* undefined System Common status, Tune Request, SysEx end, Timing Clock
Alphabet == {1, 128, 192, 240, 244, 246, 247, 248}

ArbitraryPayloads == UNION {[1..n -> Alphabet] : n \in 0..MaxLen}

\* the payloads of the specification's scenarios
ScenarioPayloads ==
    { <<128, 128, 240, 126, 127>>,
      <<128, 6, 1, 128, 247>>,
      <<128, 128, 144, 60, 100, 62, 100, 64, 100>>,
      <<128, 128, 144, 60, 100, 62, 100>>,
      <<128, 128, 254>>,
      <<128, 128, 144, 60, 100, 128, 248, 128, 62, 100>>,
      <<128, 128, 144, 60, 100, 128, 246, 128, 62, 100>> }

\* the number of data bytes that follow a status byte in MIDI 1.0
MidiDataCount(status) ==
    IF status \in 128..191 \/ status \in 224..239 \/ status = 242 THEN Some(2)
    ELSE IF status \in 192..223 \/ status = 241 \/ status = 243 THEN Some(1)
    ELSE IF status = 246 \/ status = 247 \/ status >= 248 THEN Some(0)
    ELSE None

SampleData == {0, 127}

ShortStatuses == (128..239) \cup {241, 242, 243, 246}

MessagesOf(statuses) ==
    UNION { { <<st>> \o d : d \in [1..Unwrap(MidiDataCount(st)) -> SampleData] } :
            st \in statuses }

ShortMessages == MessagesOf(ShortStatuses)

\* statuses with two, one and no data bytes, channel voice and System Common
BatchStatuses == {128, 192, 239, 241, 242, 246}

BatchMessages == MessagesOf(BatchStatuses)

\* payloads in which the data bytes of a message are cut short, by the end of
\* the payload or by a byte with the top bit set, or are one too many
CutPayloads ==
    { <<128, 128, 144, 60>>,
      <<128, 128, 144, 60, 128>>,
      <<128, 128, 144, 60, 128, 224, 5>>,
      <<128, 128, 242, 1>>,
      <<128, 128, 241>>,
      <<128, 128, 243, 128, 241>>,
      <<128, 128, 144, 60, 100, 128, 246, 5, 128, 62, 100>> }

\* a SysEx with a Timing Clock inside it, before its last data byte and
\* after it
InterleavedPayloads ==
    { <<128, 128, 240, 1, 128, 248, 2, 128, 247>>,
      <<128, 128, 240, 1, 128, 248, 128, 247>> }

TimestampBytes == {128, 255}

RECURSIVE Flatten(_)
Flatten(seqs) == IF seqs = << >> THEN << >> ELSE Head(seqs) \o Flatten(Tail(seqs))

\* header byte, then a timestamp byte before each message
BatchPayload(header, stamps, msgs) ==
    <<header>> \o Flatten([i \in 1..Len(msgs) |-> <<stamps[i]>> \o msgs[i]])

-----------------------------------------------------------------------------
(* The codec harness: one connection's decoder fed payload after payload *)

NoResult == [idx |-> decode_start_index, state |-> ParserStateNew, messages |-> << >>,
             stopped |-> FALSE, panicked |-> FALSE, reads |-> {}, heads |-> << >>]

DecInit ==
    /\ dec_pc = "idle"
    /\ dec_state = ParserStateNew
    /\ dec_before = ParserStateNew
    /\ dec_payload = << >>
    /\ dec_result = NoResult
    /\ dec_sent = << >>
    /\ dec_count = 0

\* let messages = decode_ble_midi(payload, parser_state);
DecodeCall(payload, sent) ==
    /\ dec_pc' = "decoded"
    /\ dec_before' = dec_state
    /\ dec_payload' = payload
    /\ dec_result' = decode_ble_midi(payload, dec_state)
    /\ dec_state' = dec_result'.state
    /\ dec_sent' = sent
    /\ dec_count' = dec_count + 1

\* decode_ble_midi(payload, parser_state) is called with the next payload
Decode(payload, sent) ==
    /\ dec_pc = "idle"
    /\ dec_count < MaxPayloads
    /\ DecodeCall(payload, sent)

CanDecode == dec_pc = "idle" /\ dec_count < MaxPayloads

DecodeArbitrary == CanDecode /\ \E p \in ArbitraryPayloads : Decode(p, << >>)

DecodeScenario == CanDecode /\ \E p \in ScenarioPayloads : Decode(p, << >>)

DecodeCut == CanDecode /\ \E p \in CutPayloads : Decode(p, << >>)

DecodeInterleaved == CanDecode /\ \E p \in InterleavedPayloads : Decode(p, << >>)

\* a round trip is the last payload of a run, in the runs whose parser state
\* is the fresh one when it arrives
CanRoundTrip == CanDecode /\ dec_count + 1 = MaxPayloads /\ dec_state = ParserStateNew

\* the peer sends one short message in the packet the encoder makes of it
DecodeEncoded ==
    /\ CanRoundTrip
    /\ \E m \in ShortMessages :
          LET packets == encode_ble_midi_packets(m) IN
          /\ Len(packets) = 1
          /\ Decode(packets[1], <<m>>)

\* the peer sends several short messages in one payload
DecodeBatch ==
    /\ CanRoundTrip
    /\ \E n \in 1..MaxBatch :
          \E msgs \in [1..n -> BatchMessages], stamps \in [1..n -> TimestampBytes] :
             Decode(BatchPayload(128, stamps, msgs), msgs)

\* the caller of decode_ble_midi is done with the messages
DecodeReturn ==
    /\ dec_pc = "decoded"
    /\ dec_pc' = "idle"
    /\ dec_before' = ParserStateNew
    /\ dec_payload' = << >>
    /\ dec_result' = NoResult
    /\ dec_sent' = << >>
    /\ UNCHANGED <<dec_state, dec_count>>

CodecNext ==
    /\ \/ DecodeArbitrary
       \/ DecodeScenario
       \/ DecodeCut
       \/ DecodeInterleaved
       \/ DecodeEncoded
       \/ DecodeBatch
       \/ DecodeReturn
    /\ UNCHANGED <<life_vars, flt_vars, enc_vars, out_vars>>

-----------------------------------------------------------------------------
(* Part 2: the input connection *)

RUNTIME_ERROR == "failed to create Bluetooth runtime"
MANAGER_ERROR == "failed to access Bluetooth manager"
ADAPTER_ERROR == "failed to query Bluetooth adapters"
SCAN_ERROR == "failed to start Bluetooth scan"
PERIPHERAL_ERROR == "Bluetooth MIDI device no longer available"
CONNECT_ERROR == "failed to connect to Bluetooth MIDI device"
DISCOVERY_ERROR == "failed to discover Bluetooth MIDI services"
CHARACTERISTIC_ERROR == "Bluetooth MIDI characteristic not available"
SUBSCRIBE_ERROR == "failed to subscribe to Bluetooth MIDI notifications"
NOTIFICATION_ERROR == "failed to receive Bluetooth MIDI notifications"
WRITE_ERROR == "failed to send Bluetooth MIDI data"

\* Result<(), &'static str>
Ok == [ok |-> TRUE, tag |-> ""]
Err(tag) == [ok |-> FALSE, tag |-> tag]

\* Ignore, as the set of the message classes to ignore
\* as should_ignore, with the Time flag covering the timing clock only
should_ignore_clock_only(ignore_flags, status) ==
    \/ status = 240 /\ "Sysex" \in ignore_flags
    \/ status = 248 /\ "Time" \in ignore_flags
    \/ status = 254 /\ "ActiveSense" \in ignore_flags

\* fn should_ignore(ignore: Ignore, status: u8) -> bool
should_ignore(ignore_flags, status) ==
    \/ status = 240 /\ "Sysex" \in ignore_flags
    \/ status = 241 /\ "Time" \in ignore_flags
    \/ status = 248 /\ "Time" \in ignore_flags
    \/ status = 254 /\ "ActiveSense" \in ignore_flags

\* the callback of the model: it appends the message to the user data
callback(message, data) == [data EXCEPT !.log = Append(@, message)]

(* The watch channel of the shutdown signal: value and version are the       *)
(* sender's side, seen is the version the receiver has observed.             *)

\* watch::channel(false)
watch_channel == [value |-> FALSE, version |-> 0, seen |-> 0,
                  tx_alive |-> TRUE, rx_alive |-> TRUE]

\* stop_tx.send(v): an error, and nothing stored, when no receiver is left
watch_send(ch, v) ==
    IF ch.rx_alive THEN [ch EXCEPT !.value = v, !.version = @ + 1] ELSE ch

\* as watch_changed, with the closed channel reported before an unseen value
watch_changed_closed_first(ch) ==
    IF ~ch.tx_alive THEN "Err"
    ELSE IF ch.version # ch.seen THEN "Ok"
    ELSE "Pending"

\* stop_rx.changed(): Ok for a value not seen yet, Err once the sender is
\* gone and nothing is unseen, pending otherwise
watch_changed(ch) ==
    IF ch.version # ch.seen THEN "Ok"
    ELSE IF ~ch.tx_alive THEN "Err"
    ELSE "Pending"

-----------------------------------------------------------------------------
(* The inputs of the connection model *)

ClientName == "GZUT-MIDI"

IgnoreChoices == {{}, {"Sysex", "ActiveSense"}}

\* the user data the caller gives to connect: opaque to the backend, and a
\* value of its own for each connection the caller makes
UserData(made) == [owner |-> made + 1]

\* two Program Changes; the start and the end of a SysEx, each in the framing
\* of the encoder; Active Sensing
MidiPayloads ==
    { <<128, 128, 192, 1, 128, 192, 2>>,
      <<128, 128, 240, 1>>,
      <<128, 128, 2, 247>>,
      <<128, 128, 254>> }

\* a payload too short to hold a message
ShortPayload == <<128>>

-----------------------------------------------------------------------------
(* The caller *)

NoHandler == [ignore_flags |-> {}, user_data |-> None, parser_state |-> ParserStateNew]

LifeInit ==
    /\ clock = 0
    /\ start = 0
    /\ last_stamp = None
    /\ caller = "idle"
    /\ midi_input = Some([client_name |-> ClientName, ignore_flags |-> {}])
    /\ connection = None
    /\ connect_args = None
    /\ outcome = None
    /\ connects = 0
    /\ worker = "none"
    /\ loop_result = None
    /\ handler = NoHandler
    /\ thread_result = None
    /\ current = None
    /\ pending = << >>
    /\ processed = << >>
    /\ calls = 0
    /\ stop = watch_channel
    /\ init_chan = << >>
    /\ init_sent = << >>
    /\ ble = [scanning |-> FALSE, linked |-> FALSE, subscribed |-> FALSE]
    /\ stream = "none"
    /\ notifications = << >>
    /\ arrived = 0

\* MidiInput::ignore
Ignore(flags) ==
    /\ caller = "idle" /\ midi_input # None /\ connects < MaxConnects
    /\ flags # Unwrap(midi_input).ignore_flags
    /\ midi_input' = Some([Unwrap(midi_input) EXCEPT !.ignore_flags = flags])
    /\ UNCHANGED <<caller, connection, connect_args, outcome, connects>>
    /\ UNCHANGED <<worker_vars, chan_vars, env_vars>>

\* as new_handler, with the running status of the previous connection kept
new_handler_keeps_running_status(input, data) ==
    [ignore_flags |-> input.ignore_flags,
     user_data |-> Some([seed |-> data, log |-> << >>]),
     parser_state |-> [running_status |-> handler.parser_state.running_status,
                       sysex_buffer |-> None]]

\* as new_handler, with the parser state of the previous connection kept
new_handler_keeps_parser(input, data) ==
    [ignore_flags |-> input.ignore_flags,
     user_data |-> Some([seed |-> data, log |-> << >>]),
     parser_state |-> handler.parser_state]

\* HandlerData { ignore_flags, callback, user_data: Some(data), parser_state: ParserState::new() }
new_handler(input, data) ==
    [ignore_flags |-> input.ignore_flags,
     user_data |-> Some([seed |-> data, log |-> << >>]),
     parser_state |-> ParserStateNew]

\* MidiInput::connect up to init_rx.recv(): the handler data, the two channels
\* and the thread are created
Connect(data) ==
    /\ caller = "idle" /\ midi_input # None /\ connects < MaxConnects
    /\ caller' = "connect_recv"
    /\ connect_args' = Some([midi_input |-> Unwrap(midi_input), data |-> data])
    /\ midi_input' = None
    /\ connection' = None
    /\ outcome' = None
    /\ connects' = connects + 1
    /\ handler' = new_handler(Unwrap(midi_input), data)
    /\ stop' = watch_channel
    /\ init_chan' = << >>
    /\ init_sent' = << >>
    /\ worker' = "spawned"
    /\ loop_result' = None
    /\ thread_result' = None
    /\ current' = None
    /\ pending' = << >>
    /\ processed' = << >>
    /\ calls' = 0
    /\ stream' = "none"
    /\ notifications' = << >>
    /\ arrived' = 0
    /\ UNCHANGED ble

\* MidiInput::connect when the thread cannot be spawned
ConnectSpawnFails ==
    /\ caller = "idle" /\ midi_input # None /\ connects < MaxConnects
    /\ outcome' = Some([kind |-> "connect_error", tag |-> RUNTIME_ERROR,
                        midi_input |-> Unwrap(midi_input)])
    /\ connects' = connects + 1
    /\ UNCHANGED <<caller, midi_input, connection, connect_args>>
    /\ UNCHANGED <<worker_vars, chan_vars, env_vars>>

\* MidiInputConnection { client_name, ignore_flags, stop_tx, thread }
new_connection(input) ==
    [client_name |-> input.client_name, ignore_flags |-> input.ignore_flags]

\* match init_rx.recv() { Ok(Ok(())) => Ok(MidiInputConnection {..}) }
ConnectRecvOk ==
    /\ caller = "connect_recv"
    /\ init_chan # << >> /\ Head(init_chan).ok
    /\ init_chan' = Tail(init_chan)
    /\ connection' = Some(new_connection(Unwrap(connect_args).midi_input))
    /\ outcome' = Some([kind |-> "connected"])
    /\ caller' = "connected"
    /\ UNCHANGED <<midi_input, connect_args, connects, stop, init_sent>>
    /\ UNCHANGED <<worker_vars, env_vars>>

\* match init_rx.recv() { Ok(Err(msg)) => { let _ = stop_tx.send(true); ..
ConnectRecvErr ==
    /\ caller = "connect_recv"
    /\ init_chan # << >> /\ ~Head(init_chan).ok
    /\ init_chan' = Tail(init_chan)
    /\ stop' = watch_send(stop, TRUE)
    /\ outcome' = Some([kind |-> "joining", tag |-> Head(init_chan).tag])
    /\ caller' = "connect_join"
    /\ UNCHANGED <<midi_input, connection, connect_args, connects, init_sent>>
    /\ UNCHANGED <<worker_vars, env_vars>>

\* as ConnectJoin, with the error returned without waiting for the thread
ConnectJoinNoWait ==
    /\ caller = "connect_join"
    /\ outcome' = Some([kind |-> "connect_error", tag |-> Unwrap(outcome).tag,
                        midi_input |-> Unwrap(connect_args).midi_input])
    /\ midi_input' = Some(Unwrap(connect_args).midi_input)
    /\ stop' = [stop EXCEPT !.tx_alive = FALSE]
    /\ caller' = "idle"
    /\ UNCHANGED <<connection, connect_args, connects, init_chan, init_sent>>
    /\ UNCHANGED <<worker_vars, env_vars>>

\* .. let _ = thread.join(); Err(ConnectError::other(msg, self)) }
ConnectJoin ==
    /\ caller = "connect_join"
    /\ worker = "finished"
    /\ outcome' = Some([kind |-> "connect_error", tag |-> Unwrap(outcome).tag,
                        midi_input |-> Unwrap(connect_args).midi_input])
    /\ midi_input' = Some(Unwrap(connect_args).midi_input)
    /\ stop' = [stop EXCEPT !.tx_alive = FALSE]
    /\ caller' = "idle"
    /\ UNCHANGED <<connection, connect_args, connects, init_chan, init_sent>>
    /\ UNCHANGED <<worker_vars, env_vars>>

\* close: if let Some(stop_tx) = self.stop_tx.take() { let _ = stop_tx.send(true); }
\* the sender is dropped at the end of the block
CloseSignal ==
    /\ caller = "connected"
    /\ stop' = [watch_send(stop, TRUE) EXCEPT !.tx_alive = FALSE]
    /\ caller' = "close_join"
    /\ UNCHANGED <<midi_input, connection, connect_args, outcome, connects>>
    /\ UNCHANGED <<init_chan, init_sent, worker_vars, env_vars>>

\* as close_value, with the MidiInput made the way MidiInput::new makes it
close_value_new_input(conn, joined) ==
    IF joined.user_data = None
    THEN [kind |-> "close_panic"]
    ELSE [kind |-> "closed",
          midi_input |-> [client_name |-> conn.client_name, ignore_flags |-> {}],
          data |-> Unwrap(joined.user_data)]

\* what close returns once the thread is joined: the user data of the thread's
\* result with a MidiInput made of the connection's fields, or a panic
close_value(conn, joined) ==
    IF joined.user_data = None
    THEN [kind |-> "close_panic"]
    ELSE [kind |-> "closed",
          midi_input |-> [client_name |-> conn.client_name,
                          ignore_flags |-> conn.ignore_flags],
          data |-> Unwrap(joined.user_data)]

\* close: the join of the thread and the return value
CloseJoin ==
    /\ caller = "close_join"
    /\ worker = "finished"
    /\ LET value == close_value(Unwrap(connection), Unwrap(thread_result)) IN
       /\ outcome' = Some(value)
       /\ IF value.kind = "closed"
          THEN caller' = "idle" /\ midi_input' = Some(value.midi_input)
          ELSE caller' = "panicked" /\ midi_input' = None
    /\ connection' = None
    /\ thread_result' = None
    /\ UNCHANGED <<connect_args, connects, chan_vars, env_vars>>
    /\ UNCHANGED <<worker, loop_result, handler, current, pending, processed, calls>>

\* the connection goes out of scope without close: stop_tx and the JoinHandle
\* are dropped, the thread is detached
Drop ==
    /\ caller = "connected"
    /\ stop' = [stop EXCEPT !.tx_alive = FALSE]
    /\ connection' = None
    /\ outcome' = Some([kind |-> "dropped"])
    /\ caller' = "dropped"
    /\ UNCHANGED <<midi_input, connect_args, connects>>
    /\ UNCHANGED <<init_chan, init_sent, worker_vars, env_vars>>

CallerNext ==
    \/ \E flags \in IgnoreChoices : Ignore(flags)
    \/ Connect(UserData(connects))
    \/ ConnectSpawnFails
    \/ ConnectRecvOk
    \/ ConnectRecvErr
    \/ ConnectJoin
    \/ CloseSignal
    \/ CloseJoin
    \/ Drop

-----------------------------------------------------------------------------
(* The worker thread: the closure given to spawn, and run_input_loop *)

\* a step of run_input_loop succeeded
Advance(next) ==
    /\ worker' = next
    /\ UNCHANGED <<loop_result, stop>>

\* a step of run_input_loop failed: `?` returns Err(tag), and stop_rx, owned
\* by the function, is dropped
Fail(tag) ==
    /\ worker' = "returned"
    /\ loop_result' = Some(Err(tag))
    /\ stop' = [stop EXCEPT !.rx_alive = FALSE]

StepFrame == UNCHANGED <<caller_vars, handler, thread_result, current, pending,
                         processed, calls, init_chan, init_sent, stream,
                         notifications, arrived>>

\* let runtime = match Runtime::new() { .. Err(_) => { init_tx.send(Err(RUNTIME_ERROR)); .. } }
WorkerRuntime ==
    /\ worker = "spawned"
    /\ \/ /\ worker' = "manager"
          /\ UNCHANGED <<stop, init_chan, init_sent>>
       \/ /\ worker' = "exit"
          /\ init_chan' = Append(init_chan, Err(RUNTIME_ERROR))
          /\ init_sent' = Append(init_sent, Err(RUNTIME_ERROR))
          /\ stop' = [stop EXCEPT !.rx_alive = FALSE]
    /\ UNCHANGED <<caller_vars, loop_result, handler, thread_result, current, pending,
                   processed, calls, env_vars>>

\* Manager::new().await.map_err(|_| MANAGER_ERROR)?
WorkerManager ==
    /\ worker = "manager"
    /\ Advance("adapters") \/ Fail(MANAGER_ERROR)
    /\ StepFrame /\ UNCHANGED ble

\* manager.adapters().await.map_err(|_| ADAPTER_ERROR)?
WorkerAdapters ==
    /\ worker = "adapters"
    /\ Advance("adapter_get") \/ Fail(ADAPTER_ERROR)
    /\ StepFrame /\ UNCHANGED ble

\* adapters.get_mut(port.adapter_index).ok_or(PERIPHERAL_ERROR)?
WorkerAdapterGet ==
    /\ worker = "adapter_get"
    /\ Advance("start_scan") \/ Fail(PERIPHERAL_ERROR)
    /\ StepFrame /\ UNCHANGED ble

\* adapter.start_scan(..).await.map_err(|_| SCAN_ERROR)?; sleep(250 ms)
WorkerStartScan ==
    /\ worker = "start_scan"
    /\ \/ Advance("find_peripheral") /\ ble' = [ble EXCEPT !.scanning = TRUE]
       \/ Fail(SCAN_ERROR) /\ UNCHANGED ble
    /\ StepFrame

\* find_peripheral(&adapter, &port.peripheral_id).await?
WorkerFindPeripheral ==
    /\ worker = "find_peripheral"
    /\ \/ Advance("stop_scan")
       \/ Fail(ADAPTER_ERROR)
       \/ Fail(PERIPHERAL_ERROR)
    /\ StepFrame /\ UNCHANGED ble

\* let _ = adapter.stop_scan().await;
WorkerStopScan ==
    /\ worker = "stop_scan"
    /\ Advance("is_connected")
    /\ \/ ble' = [ble EXCEPT !.scanning = FALSE]
       \/ UNCHANGED ble
    /\ StepFrame

\* if !peripheral.is_connected().await.map_err(|_| CONNECT_ERROR)? { .. }
WorkerIsConnected ==
    /\ worker = "is_connected"
    /\ \/ ble.linked /\ Advance("discover")
       \/ ~ble.linked /\ Advance("connect")
       \/ Fail(CONNECT_ERROR)
    /\ StepFrame /\ UNCHANGED ble

\* peripheral.connect().await.map_err(|_| CONNECT_ERROR)?
WorkerConnect ==
    /\ worker = "connect"
    /\ \/ Advance("discover") /\ ble' = [ble EXCEPT !.linked = TRUE]
       \/ Fail(CONNECT_ERROR) /\ UNCHANGED ble
    /\ StepFrame

\* peripheral.discover_services().await.map_err(|_| DISCOVERY_ERROR)?
WorkerDiscover ==
    /\ worker = "discover"
    /\ Advance("characteristic") \/ Fail(DISCOVERY_ERROR)
    /\ StepFrame /\ UNCHANGED ble

\* peripheral.characteristics().into_iter().find(..).ok_or(CHARACTERISTIC_ERROR)?
WorkerCharacteristic ==
    /\ worker = "characteristic"
    /\ Advance("subscribe") \/ Fail(CHARACTERISTIC_ERROR)
    /\ StepFrame /\ UNCHANGED ble

\* as WorkerSubscribe, with the success signalled right after the subscription
WorkerSubscribeThenSignal ==
    /\ worker = "subscribe"
    /\ \/ Advance("init_ok") /\ ble' = [ble EXCEPT !.subscribed = TRUE]
       \/ Fail(SUBSCRIBE_ERROR) /\ UNCHANGED ble
    /\ StepFrame

\* peripheral.subscribe(&characteristic).await.map_err(|_| SUBSCRIBE_ERROR)?
WorkerSubscribe ==
    /\ worker = "subscribe"
    /\ \/ Advance("notifications") /\ ble' = [ble EXCEPT !.subscribed = TRUE]
       \/ Fail(SUBSCRIBE_ERROR) /\ UNCHANGED ble
    /\ StepFrame

\* peripheral.notifications().await.map_err(|_| NOTIFICATION_ERROR)?
WorkerNotifications ==
    /\ worker = "notifications"
    /\ \/ Advance("init_ok") /\ stream' = "open"
       \/ Fail(NOTIFICATION_ERROR) /\ UNCHANGED stream
    /\ UNCHANGED <<caller_vars, handler, thread_result, current, pending, processed,
                   calls, init_chan, init_sent, ble, notifications, arrived>>

\* let _ = init_tx.send(Ok(()));
WorkerInitOk ==
    /\ worker = "init_ok"
    /\ init_chan' = Append(init_chan, Ok)
    /\ init_sent' = Append(init_sent, Ok)
    /\ worker' = "start"
    /\ UNCHANGED <<caller_vars, loop_result, handler, thread_result, current, pending,
                   processed, calls, stop, env_vars>>

\* let start = Instant::now(); the worker enters the loop.  The readings of
\* the clock are counted from this one
WorkerStart ==
    /\ worker = "start"
    /\ worker' = "select"
    /\ clock' = 0
    /\ start' = clock'
    /\ last_stamp' = None
    /\ UNCHANGED <<caller_vars, loop_result, handler, thread_result, current, pending,
                   processed, calls, chan_vars, env_vars>>

LoopFrame == UNCHANGED <<caller_vars, loop_result, thread_result, init_chan, init_sent,
                         ble, stream, arrived>>

\* select!: changed = stop_rx.changed() => { if changed.is_ok() && *stop_rx.borrow() { break; } }
SelectStop ==
    /\ worker = "select"
    /\ watch_changed(stop) = "Ok"
    /\ stop' = [stop EXCEPT !.seen = stop.version]
    /\ worker' = IF stop.value THEN "unsubscribe" ELSE "select"
    /\ LoopFrame
    /\ UNCHANGED <<handler, current, pending, processed, calls, notifications>>

\* select!: stop_rx.changed() is Err, the sender is gone: no break
SelectStopErr ==
    /\ worker = "select"
    /\ watch_changed(stop) = "Err"
    /\ UNCHANGED <<caller_vars, worker_vars, chan_vars, env_vars>>

\* select!: notification = notifications.next() => Some(value)
SelectNotification ==
    /\ worker = "select"
    /\ notifications # << >>
    /\ current' = Some(Head(notifications))
    /\ notifications' = Tail(notifications)
    /\ worker' = "process"
    /\ LoopFrame
    /\ UNCHANGED <<handler, pending, processed, calls, stop>>

\* select!: notification = notifications.next() => None => break
SelectStreamEnd ==
    /\ worker = "select"
    /\ notifications = << >> /\ stream = "ended"
    /\ worker' = "unsubscribe"
    /\ LoopFrame
    /\ UNCHANGED <<handler, current, pending, processed, calls, stop, notifications>>

\* process_notification up to the for loop: the length check, the lock, the decoder
ProcessNotification ==
    /\ worker = "process"
    /\ LET payload == Unwrap(current).payload IN
       /\ IF Len(payload) < 2 \/ handler.user_data = None
          THEN /\ worker' = "select"
               /\ current' = None
               /\ UNCHANGED <<handler, pending, processed>>
          ELSE LET r == decode_ble_midi(payload, handler.parser_state) IN
               /\ handler' = [handler EXCEPT !.parser_state = r.state]
               /\ processed' = Append(processed, payload)
               /\ pending' = r.messages
               /\ worker' = "deliver"
               /\ UNCHANGED current
    /\ LoopFrame
    /\ UNCHANGED <<calls, stop, notifications>>

\* if message.is_empty() { continue; } if should_ignore(ignore, message[0]) { continue; }
skips_message(ignore, message) ==
    message = << >> \/ should_ignore(ignore, message[1])

\* for message in messages: a message that is skipped
DeliverSkip ==
    /\ worker = "deliver"
    /\ pending # << >>
    /\ skips_message(handler.ignore_flags, Head(pending))
    /\ pending' = Tail(pending)
    /\ LoopFrame
    /\ UNCHANGED <<worker, handler, current, processed, calls, stop, notifications>>

\* as elapsed, counting down to the end of the clock's range
remaining(started, now) == MaxClock - now

\* start.elapsed().as_micros() as u64
elapsed(started, now) == now - started

\* for message in messages: let timestamp = start.elapsed().as_micros() as u64;
\* (callback)(timestamp, &message, data); the clock is read at a time not
\* before its latest reading
DeliverCallback ==
    /\ worker = "deliver"
    /\ pending # << >>
    /\ ~skips_message(handler.ignore_flags, Head(pending))
    /\ \E now \in clock..MaxClock :
          /\ clock' = now
          /\ last_stamp' = Some(elapsed(start, now))
    /\ UNCHANGED start
    /\ handler' = [handler EXCEPT
                      !.user_data = Some(callback(Head(pending), Unwrap(handler.user_data)))]
    /\ calls' = calls + 1
    /\ pending' = Tail(pending)
    /\ LoopFrame
    /\ UNCHANGED <<worker, current, processed, stop, notifications>>

\* the for loop is over, process_notification returns to the select loop
DeliverDone ==
    /\ worker = "deliver"
    /\ pending = << >>
    /\ worker' = "select"
    /\ current' = None
    /\ LoopFrame
    /\ UNCHANGED <<handler, pending, processed, calls, stop, notifications>>

\* as WorkerUnsubscribe, with the error of unsubscribe returned by `?`
WorkerUnsubscribeChecked ==
    /\ worker = "unsubscribe"
    /\ \/ /\ worker' = "disconnect"
          /\ ble' = [ble EXCEPT !.subscribed = FALSE]
          /\ UNCHANGED <<loop_result, stop>>
       \/ /\ worker' = "returned"
          /\ loop_result' = Some(Err(SUBSCRIBE_ERROR))
          /\ stop' = [stop EXCEPT !.rx_alive = FALSE]
          /\ UNCHANGED ble
    /\ UNCHANGED <<caller_vars, handler, thread_result, current, pending,
                   processed, calls, init_chan, init_sent, stream, notifications, arrived>>

\* peripheral.unsubscribe(&characteristic).await.ok();
WorkerUnsubscribe ==
    /\ worker = "unsubscribe"
    /\ worker' = "disconnect"
    /\ \/ ble' = [ble EXCEPT !.subscribed = FALSE]
       \/ UNCHANGED ble
    /\ UNCHANGED <<caller_vars, loop_result, handler, thread_result, current, pending,
                   processed, calls, chan_vars, stream, notifications, arrived>>

\* peripheral.disconnect().await.ok(); Ok(())
WorkerDisconnect ==
    /\ worker = "disconnect"
    /\ worker' = "returned"
    /\ loop_result' = Some(Ok)
    /\ stop' = [stop EXCEPT !.rx_alive = FALSE]
    /\ \/ ble' = [ble EXCEPT !.linked = FALSE, !.subscribed = FALSE]
       \/ UNCHANGED ble
    /\ UNCHANGED <<caller_vars, handler, thread_result, current, pending, processed,
                   calls, init_chan, init_sent, stream, notifications, arrived>>

\* as WorkerReport, with the error of run_input_loop not sent
WorkerReportSilent ==
    /\ worker = "returned"
    /\ worker' = "exit"
    /\ UNCHANGED <<caller_vars, loop_result, handler, thread_result, current, pending,
                   processed, calls, stop, init_chan, init_sent, env_vars>>

\* if let Err(msg) = init_result { let _ = init_tx.send(Err(msg)); }
WorkerReport ==
    /\ worker = "returned"
    /\ IF Unwrap(loop_result).ok
       THEN UNCHANGED <<init_chan, init_sent>>
       ELSE /\ init_chan' = Append(init_chan, Unwrap(loop_result))
            /\ init_sent' = Append(init_sent, Unwrap(loop_result))
    /\ worker' = "exit"
    /\ UNCHANGED <<caller_vars, loop_result, handler, thread_result, current, pending,
                   processed, calls, stop, env_vars>>

\* HandlerThreadResult { user_data: handler.user_data.take() }
thread_return(h) == [user_data |-> h.user_data]

\* let mut handler = handler_clone.lock().unwrap(); the thread returns its result
WorkerExit ==
    /\ worker = "exit"
    /\ thread_result' = Some(thread_return(handler))
    /\ handler' = [handler EXCEPT !.user_data = None]
    /\ worker' = "finished"
    /\ UNCHANGED <<caller_vars, loop_result, current, pending, processed, calls,
                   chan_vars, env_vars>>

WorkerNext ==
    \/ /\ \/ WorkerRuntime
          \/ WorkerManager
          \/ WorkerAdapters
          \/ WorkerAdapterGet
          \/ WorkerStartScan
          \/ WorkerFindPeripheral
          \/ WorkerStopScan
          \/ WorkerIsConnected
          \/ WorkerConnect
          \/ WorkerDiscover
          \/ WorkerCharacteristic
          \/ WorkerSubscribe
          \/ WorkerNotifications
          \/ WorkerInitOk
          \/ SelectStop
          \/ SelectStopErr
          \/ SelectNotification
          \/ SelectStreamEnd
          \/ ProcessNotification
          \/ DeliverSkip
          \/ DeliverDone
          \/ WorkerUnsubscribe
          \/ WorkerDisconnect
          \/ WorkerReport
          \/ WorkerExit
       /\ UNCHANGED time_vars
    \/ WorkerStart
    \/ DeliverCallback

-----------------------------------------------------------------------------
(* The peripheral *)

\* a notification reaches the stream; late records that the connection had
\* been dropped by then
Arrive(payload) ==
    /\ stream = "open" /\ ble.subscribed
    /\ Len(notifications) < MaxQueue
    /\ notifications' = Append(notifications,
                               [payload |-> payload, late |-> caller = "dropped"])

\* the peripheral sends a MIDI payload
Notify ==
    /\ arrived < MaxNotifications
    /\ \E payload \in MidiPayloads : Arrive(payload)
    /\ arrived' = arrived + 1
    /\ UNCHANGED <<caller_vars, worker_vars, chan_vars, ble, stream>>

\* the peripheral sends a payload that holds no message, any number of times
NotifyShort ==
    /\ Arrive(ShortPayload)
    /\ UNCHANGED <<caller_vars, worker_vars, chan_vars, ble, stream, arrived>>

\* the peripheral goes away: the notification stream ends
StreamEnd ==
    /\ stream = "open"
    /\ stream' = "ended"
    /\ UNCHANGED <<caller_vars, worker_vars, chan_vars, ble, notifications, arrived>>

EnvNext == Notify \/ NotifyShort \/ StreamEnd

-----------------------------------------------------------------------------
(* The filter harness: process_notification called on its own, with the      *)
(* handler data of a connection made with any of the ignore sets             *)

IgnoreFlags == {"Sysex", "Time", "ActiveSense"}

\* one payload for each kind of status byte, in the framing of the encoder,
\* and one that holds a message of every kind the filter tells apart
FilterPayloads ==
    { <<128, 128, 240, 1, 128, 247>>,
      <<128, 128, 241, 5>>,
      <<128, 128, 242, 1, 2>>,
      <<128, 128, 246>>,
      <<128, 128, 248>>,
      <<128, 128, 250>>,
      <<128, 128, 254>>,
      <<128, 128, 255>>,
      <<128, 128, 144, 60, 100>>,
      <<128, 128, 248, 128, 144, 60, 100, 128, 254, 128, 241, 5,
        128, 240, 1, 128, 247, 128, 192, 7>> }

FltInit ==
    /\ flt_pc = "idle"
    /\ flt_handler = NoHandler
    /\ flt_decoded = << >>
    /\ flt_pending = << >>

\* process_notification up to the for loop, with the payload of the
\* notification and the handler data of a new connection
FltProcess(ignore_flags, payload) ==
    /\ flt_pc \in {"idle", "returned"}
    /\ LET data == new_handler([client_name |-> ClientName, ignore_flags |-> ignore_flags],
                               UserData(0))
           r == decode_ble_midi(payload, data.parser_state)
       IN IF Len(payload) < 2
          THEN /\ flt_handler' = data
               /\ flt_decoded' = << >>
               /\ flt_pending' = << >>
               /\ flt_pc' = "returned"
          ELSE /\ flt_handler' = [data EXCEPT !.parser_state = r.state]
               /\ flt_decoded' = r.messages
               /\ flt_pending' = r.messages
               /\ flt_pc' = "deliver"

\* for message in messages: a message that is skipped
FltSkip ==
    /\ flt_pc = "deliver"
    /\ flt_pending # << >>
    /\ skips_message(flt_handler.ignore_flags, Head(flt_pending))
    /\ flt_pending' = Tail(flt_pending)
    /\ UNCHANGED <<flt_pc, flt_handler, flt_decoded>>

\* for message in messages: (callback)(timestamp, &message, data)
FltCallback ==
    /\ flt_pc = "deliver"
    /\ flt_pending # << >>
    /\ ~skips_message(flt_handler.ignore_flags, Head(flt_pending))
    /\ flt_handler' = [flt_handler EXCEPT
                          !.user_data = Some(callback(Head(flt_pending),
                                                      Unwrap(flt_handler.user_data)))]
    /\ flt_pending' = Tail(flt_pending)
    /\ UNCHANGED <<flt_pc, flt_decoded>>

\* the for loop is over, process_notification returns
FltReturn ==
    /\ flt_pc = "deliver"
    /\ flt_pending = << >>
    /\ flt_pc' = "returned"
    /\ UNCHANGED <<flt_handler, flt_decoded, flt_pending>>

FltNext ==
    /\ \/ \E ignore_flags \in SUBSET IgnoreFlags, payload \in FilterPayloads \cup {ShortPayload} :
             FltProcess(ignore_flags, payload)
       \/ FltSkip
       \/ FltCallback
       \/ FltReturn
    /\ UNCHANGED <<dec_vars, life_vars, enc_vars, out_vars>>

-----------------------------------------------------------------------------
(* The encoder harness: encode_ble_midi_packets called on its own *)

\* the message of n bytes whose i-th byte is i * stride, as a byte
EncMessage(n, stride) == [i \in 1..n |-> (i * stride) % 256]

EncStrides == {1, 37}

EncMessages == {EncMessage(n, stride) : n \in 0..MaxMessageLen, stride \in EncStrides}

EncInit ==
    /\ enc_message = << >>
    /\ enc_packets = << >>

\* let packets = encode_ble_midi_packets(message);
Encode(message) ==
    /\ enc_message' = message
    /\ enc_packets' = encode_ble_midi_packets(message)

EncNext ==
    /\ \E message \in EncMessages : Encode(message)
    /\ UNCHANGED <<dec_vars, life_vars, flt_vars, out_vars>>

-----------------------------------------------------------------------------
(* The SysEx harness: a SysEx goes through encode_ble_midi_packets, and the  *)
(* decoder of a new connection is given the packets one after the other      *)

\* the SysEx of n bytes whose i-th data byte is i * stride, as a data byte
SysexMessage(n, stride) ==
    <<240>> \o [i \in 1..(n - 2) |-> (i * stride) % 128] \o <<247>>

SysexMessagesToSend ==
    {SysexMessage(n, stride) : n \in 2..MaxSysexLen, stride \in EncStrides}

\* the peer encodes a SysEx for a connection that has decoded nothing yet
SysexSend(message) ==
    /\ dec_pc = "idle"
    /\ dec_count = Len(enc_packets)
    /\ enc_message' = message
    /\ enc_packets' = encode_ble_midi_packets(message)
    /\ dec_state' = ParserStateNew
    /\ dec_count' = 0
    /\ UNCHANGED <<dec_pc, dec_before, dec_payload, dec_result, dec_sent>>

\* the next packet arrives and is decoded
SysexDecodePacket ==
    /\ dec_pc = "idle"
    /\ dec_count < Len(enc_packets)
    /\ DecodeCall(enc_packets[dec_count + 1], <<enc_message>>)
    /\ UNCHANGED <<enc_message, enc_packets>>

SysexNext ==
    /\ \/ \E message \in SysexMessagesToSend : SysexSend(message)
       \/ SysexDecodePacket
       \/ DecodeReturn /\ UNCHANGED <<enc_message, enc_packets>>
    /\ UNCHANGED <<life_vars, flt_vars, out_vars>>

-----------------------------------------------------------------------------
(* The output side: MidiOutput::connect, connect_output_port, send, close *)

\* messages of no byte, one byte, one full packet, one byte more, and three packets
SendLengths == {0, 1, MAX_PAYLOAD, MAX_PAYLOAD + 1, 2 * MAX_PAYLOAD + 1}

SendMessages == {EncMessage(n, 1) : n \in SendLengths}

OutInit ==
    /\ out_pc = "idle"
    /\ midi_output = Some([client_name |-> ClientName])
    /\ out_args = None
    /\ out_conn = None
    /\ out_outcome = None
    /\ out_ble = [scanning |-> FALSE, stop_called |-> FALSE, linked |-> FALSE,
                  opened |-> FALSE, teardown |-> << >>]
    /\ out_message = << >>
    /\ out_packets = << >>
    /\ out_written = << >>
    /\ out_ops = 0

OutSendFrame == UNCHANGED <<out_message, out_packets, out_written>>

\* MidiOutput::connect: let runtime = match Runtime::new() { .. }
OutConnect ==
    /\ out_pc = "idle" /\ midi_output # None /\ out_ops < MaxOutputOps
    /\ out_ops' = out_ops + 1
    /\ \/ /\ out_pc' = "manager"
          /\ out_args' = midi_output
          /\ midi_output' = None
          /\ out_outcome' = None
       \/ /\ out_outcome' = Some([kind |-> "connect_error", tag |-> RUNTIME_ERROR,
                                  midi_output |-> Unwrap(midi_output)])
          /\ UNCHANGED <<out_pc, out_args, midi_output>>
    /\ out_ble' = [out_ble EXCEPT !.opened = FALSE]
    /\ UNCHANGED out_conn
    /\ OutSendFrame

\* a step of connect_output_port succeeded
OutAdvance(next) ==
    /\ out_pc' = next
    /\ UNCHANGED <<midi_output, out_outcome>>

\* a step of connect_output_port failed: `?` returns Err(tag), and
\* MidiOutput::connect returns Err(ConnectError::other(msg, self))
OutFail(tag) ==
    /\ out_pc' = "idle"
    /\ out_outcome' = Some([kind |-> "connect_error", tag |-> tag,
                            midi_output |-> Unwrap(out_args)])
    /\ midi_output' = out_args

OutStepFrame == UNCHANGED <<out_args, out_conn, out_ops>> /\ OutSendFrame

\* Manager::new().await.map_err(|_| MANAGER_ERROR)?
OutManager ==
    /\ out_pc = "manager"
    /\ OutAdvance("adapters") \/ OutFail(MANAGER_ERROR)
    /\ OutStepFrame /\ UNCHANGED out_ble

\* manager.adapters().await.map_err(|_| ADAPTER_ERROR)?
OutAdapters ==
    /\ out_pc = "adapters"
    /\ OutAdvance("adapter_get") \/ OutFail(ADAPTER_ERROR)
    /\ OutStepFrame /\ UNCHANGED out_ble

\* adapters.get_mut(port.adapter_index).ok_or(PERIPHERAL_ERROR)?
OutAdapterGet ==
    /\ out_pc = "adapter_get"
    /\ OutAdvance("start_scan") \/ OutFail(PERIPHERAL_ERROR)
    /\ OutStepFrame /\ UNCHANGED out_ble

\* adapter.start_scan(..).await.map_err(|_| SCAN_ERROR)?; sleep(250 ms)
OutStartScan ==
    /\ out_pc = "start_scan"
    /\ \/ /\ OutAdvance("find_peripheral")
          /\ out_ble' = [out_ble EXCEPT !.scanning = TRUE, !.stop_called = FALSE]
       \/ OutFail(SCAN_ERROR) /\ UNCHANGED out_ble
    /\ OutStepFrame

\* find_peripheral(&adapter, &port.peripheral_id).await?
OutFindPeripheral ==
    /\ out_pc = "find_peripheral"
    /\ \/ OutAdvance("stop_scan")
       \/ OutFail(ADAPTER_ERROR)
       \/ OutFail(PERIPHERAL_ERROR)
    /\ OutStepFrame /\ UNCHANGED out_ble

\* let _ = adapter.stop_scan().await;
OutStopScan ==
    /\ out_pc = "stop_scan"
    /\ OutAdvance("is_connected")
    /\ \/ out_ble' = [out_ble EXCEPT !.scanning = FALSE, !.stop_called = TRUE]
       \/ out_ble' = [out_ble EXCEPT !.stop_called = TRUE]
    /\ OutStepFrame

\* if !peripheral.is_connected().await.map_err(|_| CONNECT_ERROR)? { .. }
OutIsConnected ==
    /\ out_pc = "is_connected"
    /\ \/ out_ble.linked /\ OutAdvance("discover")
       \/ ~out_ble.linked /\ OutAdvance("connect")
       \/ OutFail(CONNECT_ERROR)
    /\ OutStepFrame /\ UNCHANGED out_ble

\* peripheral.connect().await.map_err(|_| CONNECT_ERROR)?
OutPeripheralConnect ==
    /\ out_pc = "connect"
    /\ \/ OutAdvance("discover") /\ out_ble' = [out_ble EXCEPT !.linked = TRUE, !.opened = TRUE]
       \/ OutFail(CONNECT_ERROR) /\ UNCHANGED out_ble
    /\ OutStepFrame

\* peripheral.discover_services().await.map_err(|_| DISCOVERY_ERROR)?
OutDiscover ==
    /\ out_pc = "discover"
    /\ OutAdvance("characteristic") \/ OutFail(DISCOVERY_ERROR)
    /\ OutStepFrame /\ UNCHANGED out_ble

\* peripheral.characteristics().into_iter().find(..).ok_or(CHARACTERISTIC_ERROR)?
\* and Ok((peripheral, characteristic)) => Ok(MidiOutputConnection { .. })
OutCharacteristic ==
    /\ out_pc = "characteristic"
    /\ \/ /\ out_pc' = "connected"
          /\ out_conn' = Some([client_name |-> Unwrap(out_args).client_name])
          /\ out_outcome' = Some([kind |-> "connected"])
          /\ UNCHANGED midi_output
       \/ OutFail(CHARACTERISTIC_ERROR) /\ UNCHANGED out_conn
    /\ UNCHANGED <<out_args, out_ops, out_ble>>
    /\ OutSendFrame

\* send: if message.is_empty() { return Ok(()); }
\*       let packets = encode_ble_midi_packets(message);
OutSend(message) ==
    /\ out_pc = "connected" /\ out_ops < MaxOutputOps
    /\ out_ops' = out_ops + 1
    /\ out_message' = message
    /\ out_written' = << >>
    /\ IF Len(message) = 0
       THEN /\ out_packets' = << >>
            /\ out_outcome' = Some([kind |-> "send_ok"])
            /\ UNCHANGED out_pc
       ELSE /\ out_packets' = encode_ble_midi_packets(message)
            /\ out_outcome' = None
            /\ out_pc' = "sending"
    /\ UNCHANGED <<midi_output, out_args, out_conn, out_ble>>

\* as OutWrite, with the loop going on after a write that failed
OutWriteGoesOn ==
    /\ out_pc = "sending"
    /\ Len(out_written) < Len(out_packets)
    /\ \E ok \in BOOLEAN :
          out_written' = Append(out_written,
                                [packet |-> out_packets[Len(out_written) + 1], ok |-> ok])
    /\ UNCHANGED <<out_pc, out_outcome, midi_output, out_args, out_conn, out_ble,
                   out_message, out_packets, out_ops>>

\* for packet in packets { block_on(peripheral.write(.., WithoutResponse))
\*                             .map_err(|_| SendError::Other(WRITE_ERROR))?; }
OutWrite ==
    /\ out_pc = "sending"
    /\ Len(out_written) < Len(out_packets)
    /\ LET packet == out_packets[Len(out_written) + 1] IN
       \/ /\ out_written' = Append(out_written, [packet |-> packet, ok |-> TRUE])
          /\ UNCHANGED <<out_pc, out_outcome>>
       \/ /\ out_written' = Append(out_written, [packet |-> packet, ok |-> FALSE])
          /\ out_outcome' = Some([kind |-> "send_error", tag |-> WRITE_ERROR])
          /\ out_pc' = "connected"
    /\ UNCHANGED <<midi_output, out_args, out_conn, out_ble, out_message,
                   out_packets, out_ops>>

\* send: the for loop is over, Ok(())
OutSendDone ==
    /\ out_pc = "sending"
    /\ Len(out_written) = Len(out_packets)
    /\ out_outcome' = Some([kind |-> "send_ok"])
    /\ out_pc' = "connected"
    /\ UNCHANGED <<midi_output, out_args, out_conn, out_ble, out_ops>>
    /\ OutSendFrame

\* MidiOutputConnection::close: self.peripheral.unsubscribe(&self.characteristic).await.ok();
OutClose ==
    /\ out_pc = "connected"
    /\ \E ok \in BOOLEAN :
          out_ble' = [out_ble EXCEPT !.teardown = <<[op |-> "unsubscribe", ok |-> ok]>>]
    /\ out_pc' = "close_disconnect"
    /\ out_outcome' = None
    /\ UNCHANGED <<midi_output, out_conn, out_args, out_ops>>
    /\ OutSendFrame

\* MidiOutputConnection::close: self.peripheral.disconnect().await.ok();
\* MidiOutput { client_name: self.client_name }
OutCloseDisconnect ==
    /\ out_pc = "close_disconnect"
    /\ \/ out_ble' = [out_ble EXCEPT
                          !.linked = FALSE,
                          !.teardown = Append(@, [op |-> "disconnect", ok |-> TRUE])]
       \/ out_ble' = [out_ble EXCEPT
                          !.teardown = Append(@, [op |-> "disconnect", ok |-> FALSE])]
    /\ midi_output' = Some([client_name |-> Unwrap(out_conn).client_name])
    /\ out_conn' = None
    /\ out_outcome' = Some([kind |-> "closed"])
    /\ out_pc' = "idle"
    /\ UNCHANGED <<out_args, out_ops>>
    /\ OutSendFrame

OutNext ==
    /\ \/ OutConnect
       \/ OutManager
       \/ OutAdapters
       \/ OutAdapterGet
       \/ OutStartScan
       \/ OutFindPeripheral
       \/ OutStopScan
       \/ OutIsConnected
       \/ OutPeripheralConnect
       \/ OutDiscover
       \/ OutCharacteristic
       \/ \E message \in SendMessages : OutSend(message)
       \/ OutWrite
       \/ OutSendDone
       \/ OutClose
       \/ OutCloseDisconnect
    /\ UNCHANGED <<dec_vars, life_vars, flt_vars, enc_vars>>

-----------------------------------------------------------------------------
(* The specifications *)

Init == DecInit /\ LifeInit /\ FltInit /\ EncInit /\ OutInit

CallerStep == CallerNext /\ UNCHANGED <<time_vars, dec_vars, flt_vars, enc_vars, out_vars>>

WorkerStep == WorkerNext /\ UNCHANGED <<dec_vars, flt_vars, enc_vars, out_vars>>

EnvStep == EnvNext /\ UNCHANGED <<time_vars, dec_vars, flt_vars, enc_vars, out_vars>>

LifeNext == CallerStep \/ WorkerStep \/ EnvStep

\* the input connection
Spec == Init /\ [][LifeNext]_vars

\* the input connection with its scheduling: the worker thread keeps running
\* (every BLE operation and every callback returns), join returns once the
\* thread has finished, and the select! of the input loop, which polls its
\* ready branches in random order, does not pass over the shutdown branch
\* forever
LiveSpec ==
    /\ Spec
    /\ WF_vars(WorkerStep)
    /\ WF_vars(CloseJoin /\ UNCHANGED <<time_vars, dec_vars, flt_vars, enc_vars, out_vars>>)
    /\ SF_vars(SelectStop /\ UNCHANGED <<time_vars, dec_vars, flt_vars, enc_vars, out_vars>>)

\* the codec harness
SpecCodec == Init /\ [][CodecNext]_vars

\* the encoder harness
SpecEncoder == Init /\ [][EncNext]_vars

\* the output side
SpecOutput == Init /\ [][OutNext]_vars

\* the filter harness
SpecFilter == Init /\ [][FltNext]_vars

\* the SysEx harness
SpecSysex == Init /\ [][SysexNext]_vars

\* a program that uses the input side or the output side: the two share no
\* state, each runs while the other is as it was constructed
SpecBothSides == Init /\ [][(LifeNext /\ OutInit) \/ (OutNext /\ LifeInit)]_vars

-----------------------------------------------------------------------------
(* Properties of the codec *)

AllData(seq) == \A i \in 1..Len(seq) : ~HighBit(seq[i])

\* header, timestamp, 0xF0 and the first data bytes of a SysEx
IsSysexStartFrame(p) ==
    /\ Len(p) >= 4
    /\ HighBit(p[1]) /\ HighBit(p[2]) /\ p[3] = 240
    /\ AllData(SubSeq(p, 4, Len(p)))

\* header, the remaining data bytes, a timestamp and the closing 0xF7
IsSysexEndFrame(p) ==
    /\ Len(p) >= 4
    /\ HighBit(p[1])
    /\ AllData(SubSeq(p, 2, Len(p) - 2))
    /\ HighBit(p[Len(p) - 1]) /\ p[Len(p)] = 247

\* the parser state is the one a SysEx start frame leaves behind
AfterSysexStartFrame(state) ==
    /\ state.sysex_buffer # None
    /\ LET first == <<128, 128>> \o Unwrap(state.sysex_buffer)
           r == decode_ble_midi(first, ParserStateNew)
       IN IsSysexStartFrame(first) /\ r.state = state /\ r.messages = << >>

\* C5: a SysEx delivered as a start frame and an end frame (the remaining data
\* bytes directly after the header, then a timestamp and 0xF7) is emitted once,
\* at the end frame, as 0xF0, the data bytes of both frames in order, 0xF7.
SysexSplitAcrossPayloads ==
    (dec_pc = "decoded" /\ IsSysexEndFrame(dec_payload) /\ AfterSysexStartFrame(dec_before))
    => dec_result.messages =
          << Unwrap(dec_before.sysex_buffer)
             \o SubSeq(dec_payload, 2, Len(dec_payload) - 2) \o <<247>> >>

\* header, timestamp, a channel-voice status and k >= 1 complete groups of data bytes
IsRunningStatusPayload(p) ==
    /\ Len(p) >= 4
    /\ HighBit(p[1]) /\ HighBit(p[2]) /\ p[3] \in 128..239
    /\ AllData(SubSeq(p, 4, Len(p)))
    /\ (Len(p) - 3) % Unwrap(MidiDataCount(p[3])) = 0

RunningStatusGroups(p) ==
    LET n == Unwrap(MidiDataCount(p[3]))
        k == (Len(p) - 3) \div n
    IN [j \in 1..k |-> <<p[3]>> \o SubSeq(p, 4 + (j - 1) * n, 3 + j * n)]

\* C6: a payload of header, timestamp, one channel-voice status and k complete
\* groups of data bytes is decoded to k messages, the status followed by each
\* group in turn.
RunningStatusInOnePayload ==
    (dec_pc = "decoded" /\ IsRunningStatusPayload(dec_payload))
    => dec_result.messages = RunningStatusGroups(dec_payload)

\* C7: every emitted message other than a SysEx starts with a status byte that
\* has an entry in the table of data-byte counts and carries exactly that many
\* data bytes; nothing is emitted for a status without an entry.
EmittedMessagesComplete ==
    dec_pc = "decoded" =>
    \A i \in 1..Len(dec_result.messages) :
        LET m == dec_result.messages[i] IN
        /\ Len(m) >= 1
        /\ HighBit(m[1])
        /\ m[1] # 240 =>
              /\ MidiDataCount(m[1]) # None
              /\ Len(m) - 1 = Unwrap(MidiDataCount(m[1]))
              /\ AllData(Tail(m))

\* C9: decode_ble_midi never indexes the payload out of range, every iteration
\* of its loop starts at a larger index than the one before and ends past its
\* own start, and payloads shorter than two bytes produce nothing.
DecoderNeverPanics ==
    dec_pc = "decoded" =>
    LET heads == dec_result.heads IN
    /\ ~dec_result.panicked
    /\ \A i \in dec_result.reads : i >= 0 /\ i < Len(dec_payload)
    /\ \A k \in 1..(Len(heads) - 1) : heads[k + 1] > heads[k]
    /\ heads # << >> => dec_result.idx > heads[Len(heads)]
    /\ Len(dec_payload) < 2 => dec_result.messages = << >>

\* a payload that ends with a timestamp byte arrived while a SysEx was in progress
WitnessDecoderNeverPanics ==
    /\ dec_pc = "decoded"
    /\ dec_result.stopped
    /\ dec_before.sysex_buffer # None
    /\ Len(dec_payload) = MaxLen

\* C10: what the peer packed into a payload (one encoded short message, or a
\* batch of short messages each behind a timestamp byte) is what the decoder
\* emits from a fresh parser state.
ShortMessagesRoundTrip ==
    (dec_pc = "decoded" /\ dec_sent # << >> /\ dec_before = ParserStateNew)
    => dec_result.messages = dec_sent

\* a batch of the largest size was decoded, and it holds a Program Change
WitnessShortMessagesRoundTrip ==
    /\ dec_pc = "decoded"
    /\ dec_before = ParserStateNew
    /\ Len(dec_sent) = MaxBatch
    /\ dec_sent[1][1] = 192
    /\ dec_result.messages = dec_sent

-----------------------------------------------------------------------------
(* Properties of the input connection *)

\* the user data of the connection, wherever it is: in the handler data, in
\* the result of the finished thread, or with the caller after close
UserDataPlaces ==
    (IF handler.user_data # None THEN <<Unwrap(handler.user_data)>> ELSE << >>)
    \o (IF thread_result # None /\ Unwrap(thread_result).user_data # None
        THEN <<Unwrap(Unwrap(thread_result).user_data)>> ELSE << >>)
    \o (IF outcome # None /\ Unwrap(outcome).kind = "closed"
        THEN <<Unwrap(outcome).data>> ELSE << >>)

RECURSIVE DecodeAll(_, _)
DecodeAll(payloads, state) ==
    IF payloads = << >> THEN << >>
    ELSE LET r == decode_ble_midi(Head(payloads), state)
         IN r.messages \o DecodeAll(Tail(payloads), r.state)

Passes(ignore, message) == ~skips_message(ignore, message)

RECURSIVE Filter(_, _)
Filter(ignore, messages) ==
    IF messages = << >> THEN << >>
    ELSE (IF Passes(ignore, Head(messages)) THEN <<Head(messages)>> ELSE << >>)
         \o Filter(ignore, Tail(messages))

CloseReturned == outcome # None /\ Unwrap(outcome).kind \in {"closed", "close_panic"}

WorkerInLoop == worker \in {"select", "process", "deliver"}

\* C1: once the connection has been dropped without close, no callback is
\* invoked for a notification that arrived after the drop.
NoCallbackAfterDrop ==
    [][(current # None /\ Unwrap(current).late) => calls' # calls + 1]_vars

\* C2: once close has sent the shutdown signal, the worker begins no callback
\* invocation.
NoCallbackAfterShutdownSignal ==
    [][stop.value => calls' # calls + 1]_vars

\* C3: between connect and close the user data is in exactly one place; close
\* does not panic and returns the user data given to connect, changed by the
\* callback invocations for the decoded payloads and by nothing else, with a
\* MidiInput equal to the one given to connect; after close the user data is
\* nowhere else.
UserDataReturnedByClose ==
    /\ caller \in {"connected", "close_join"} => Len(UserDataPlaces) = 1
    /\ CloseReturned =>
          LET value == Unwrap(outcome)
              args == Unwrap(connect_args)
          IN /\ value.kind = "closed"
             /\ value.data.seed = args.data
             /\ value.data.log =
                   Filter(args.midi_input.ignore_flags, DecodeAll(processed, ParserStateNew))
             /\ value.midi_input = args.midi_input
             /\ UserDataPlaces = <<value.data>>

\* close returned the user data with two messages in it although the shutdown
\* signal was never delivered: the worker had left the loop at the end of the
\* notification stream
WitnessUserDataReturnedByClose ==
    /\ CloseReturned
    /\ Unwrap(outcome).kind = "closed"
    /\ Unwrap(outcome).midi_input.ignore_flags # {}
    /\ Len(Unwrap(outcome).data.log) = 2
    /\ ~stop.value
    /\ stream = "ended"

\* C4: whenever close has sent the shutdown signal, close returns.
CloseReturns == (caller = "close_join") ~> (caller = "idle" /\ CloseReturned)

\* close has sent the signal before the worker entered the loop, and
\* notifications are waiting in the stream
WitnessCloseReturns ==
    /\ caller = "close_join"
    /\ worker = "start"
    /\ stop.value /\ stop.version # stop.seen
    /\ Len(notifications) = MaxQueue

SysexMessages(messages) == SelectSeq(messages, LAMBDA m : m # << >> /\ m[1] = 240)

IsCompleteSysex(m) ==
    /\ Len(m) >= 2
    /\ m[1] = 240 /\ m[Len(m)] = 247
    /\ AllData(SubSeq(m, 2, Len(m) - 1))

RECURSIVE CountByte(_, _)
CountByte(byte, payloads) ==
    IF payloads = << >> THEN 0
    ELSE Cardinality({i \in 1..Len(Head(payloads)) : Head(payloads)[i] = byte})
         + CountByte(byte, Tail(payloads))

\* C8: every SysEx the decoder has emitted and every SysEx the callback has
\* been given is closed by 0xF7 with only data bytes inside, and was begun by
\* a 0xF0 received by this connection; once the worker has left the loop
\* nothing is left to deliver.
SysexOnlyWhenClosed ==
    /\ \A i \in 1..Len(pending) :
          pending[i] # << >> /\ pending[i][1] = 240 => IsCompleteSysex(pending[i])
    /\ \A k \in 1..Len(UserDataPlaces) :
          LET sysex == SysexMessages(UserDataPlaces[k].log) IN
          /\ \A i \in 1..Len(sysex) : IsCompleteSysex(sysex[i])
          /\ Len(sysex) <= CountByte(240, processed)
    /\ ~WorkerInLoop => pending = << >>

\* close returned while a SysEx was in progress, and the callback was never
\* given a SysEx
WitnessSysexOnlyWhenClosed ==
    /\ CloseReturned
    /\ Unwrap(outcome).kind = "closed"
    /\ handler.parser_state.sysex_buffer # None
    /\ Len(processed) = MaxNotifications
    /\ SysexMessages(Unwrap(outcome).data.log) = << >>
    /\ Unwrap(connect_args).midi_input.ignore_flags = {}

\* the tags a failure of the step at this position of the worker is reported with
StepTags(position) ==
    CASE position = "spawned" -> {RUNTIME_ERROR}
      [] position = "manager" -> {MANAGER_ERROR}
      [] position = "adapters" -> {ADAPTER_ERROR}
      [] position = "adapter_get" -> {PERIPHERAL_ERROR}
      [] position = "start_scan" -> {SCAN_ERROR}
      [] position = "find_peripheral" -> {ADAPTER_ERROR, PERIPHERAL_ERROR}
      [] position \in {"is_connected", "connect"} -> {CONNECT_ERROR}
      [] position = "discover" -> {DISCOVERY_ERROR}
      [] position = "characteristic" -> {CHARACTERISTIC_ERROR}
      [] position = "subscribe" -> {SUBSCRIBE_ERROR}
      [] position = "notifications" -> {NOTIFICATION_ERROR}
      [] OTHER -> {}

\* the worker is past run_input_loop
WorkerPastLoop == worker \in {"returned", "exit", "finished"}

\* C13: a step of the initialisation that fails is reported on the init
\* channel with its own tag and is the last step the worker attempts; connect
\* then returns, after the worker thread has finished, an error with that tag
\* and the MidiInput it was given, and the callback was not invoked.
ConnectFailureReturns ==
    /\ []((init_sent # << >> /\ ~Head(init_sent).ok) =>
             (WorkerPastLoop /\ Len(init_sent) = 1 /\ calls = 0 /\ stream = "none"))
    /\ [][(Len(init_sent') > Len(init_sent) /\ ~init_sent'[Len(init_sent')].ok) =>
             init_sent'[Len(init_sent')].tag \in
                 StepTags(IF worker = "returned" THEN "none" ELSE worker)
                 \cup (IF loop_result # None /\ ~Unwrap(loop_result).ok
                       THEN {Unwrap(loop_result).tag} ELSE {})]_vars
    /\ [][(loop_result = None /\ loop_result' # None /\ ~Unwrap(loop_result').ok) =>
             Unwrap(loop_result').tag \in StepTags(worker)]_vars
    /\ [][(caller = "connect_join" /\ caller' = "idle") =>
             /\ worker' = "finished"
             /\ calls' = 0 /\ processed' = << >>
             /\ init_sent' # << >> /\ ~Head(init_sent').ok
             /\ outcome' = Some([kind |-> "connect_error",
                                 tag |-> Head(init_sent').tag,
                                 midi_input |-> Unwrap(connect_args').midi_input])
             /\ midi_input' = Some(Unwrap(connect_args').midi_input)
             /\ connection' = None]_vars

\* connect returned the error of the notification stream, the last step of
\* the initialisation, after the subscription had succeeded
WitnessConnectFailureReturns ==
    /\ caller = "idle"
    /\ outcome # None /\ Unwrap(outcome).kind = "connect_error"
    /\ Unwrap(outcome).tag = NOTIFICATION_ERROR
    /\ ble.subscribed
    /\ worker = "finished"
    /\ connects = 1

-----------------------------------------------------------------------------
(* Properties of the encoder *)

\* the packets without their two leading bytes, one after the other
PacketTails(packets) ==
    Flatten([i \in 1..Len(packets) |-> SubSeq(packets[i], 3, Len(packets[i]))])

\* C11: a message of n bytes is encoded to ceil(n / 18) packets of at most 20
\* bytes, each starting with 0x80 0x80 and all but the last one 20 bytes long,
\* whose tails put together are the message; no packet for the empty message.
EncoderChunks ==
    LET n == Len(enc_message)
        count == Len(enc_packets)
    IN /\ count = (n + 17) \div 18
       /\ n = 0 => enc_packets = << >>
       /\ \A i \in 1..count :
             /\ Len(enc_packets[i]) >= 2 /\ Len(enc_packets[i]) <= 20
             /\ enc_packets[i][1] = 128 /\ enc_packets[i][2] = 128
             /\ i < count => Len(enc_packets[i]) = 20
       /\ PacketTails(enc_packets) = enc_message

\* the encoder was given the longest message and cut it into three packets or more
WitnessEncoderChunks ==
    /\ Len(enc_message) = MaxMessageLen
    /\ Len(enc_packets) >= 3
    /\ enc_message[2] = 74

-----------------------------------------------------------------------------
(* Properties of the output side *)

\* the last call of the output side returned a value of this kind
SendReturned(kind) == out_outcome # None /\ Unwrap(out_outcome).kind = kind

\* C12: send writes the packets of the encoded message one by one in their
\* order; a write that failed is the last one send makes, and send then
\* returns the write error; send returns Ok only after every packet was
\* written successfully, and for the empty message without any write.
SendWritesPackets ==
    LET expected == encode_ble_midi_packets(out_message)
        made == Len(out_written)
        failed == made > 0 /\ ~out_written[made].ok
    IN (out_pc = "sending" \/ SendReturned("send_ok") \/ SendReturned("send_error")) =>
       /\ made <= Len(expected)
       /\ \A i \in 1..made : out_written[i].packet = expected[i]
       /\ \A i \in 1..(made - 1) : out_written[i].ok
       /\ failed <=> SendReturned("send_error")
       /\ SendReturned("send_error") =>
              (Unwrap(out_outcome).tag = WRITE_ERROR /\ out_pc = "connected")
       /\ SendReturned("send_ok") => (made = Len(expected) /\ out_pc = "connected")
       /\ Len(out_message) = 0 => (SendReturned("send_ok") /\ made = 0)

\* the second of three writes failed and send returned the error
WitnessSendWritesPackets ==
    /\ SendReturned("send_error")
    /\ Len(out_packets) = 3
    /\ Len(out_written) = 2
    /\ out_written[1].ok

-----------------------------------------------------------------------------
(* Properties of the callback invocations *)

\* C14: within one connection the messages given to the callback so far,
\* followed by those of the current payload that will still be given, are the
\* messages decoded from the payloads in the order the decoder produced them,
\* with the ignored ones removed; the payloads are decoded in the order they
\* arrived; every invocation is made by the worker inside process_notification,
\* one at a time; and the timestamp of an invocation is not less than the
\* timestamp of the one before.
CallbacksInOrder ==
    /\ [](handler.user_data # None =>
            Unwrap(handler.user_data).log \o Filter(handler.ignore_flags, pending)
               = Filter(handler.ignore_flags, DecodeAll(processed, ParserStateNew)))
    /\ [][current' # current /\ current' # None =>
            /\ notifications # << >>
            /\ current' = Some(Head(notifications))
            /\ notifications' = Tail(notifications)]_vars
    /\ [][processed' # processed /\ processed' # << >> =>
            /\ current # None
            /\ processed' = Append(processed, Unwrap(current).payload)]_vars
    /\ [][calls' # calls /\ calls' # 0 =>
            /\ worker = "deliver" /\ worker' = "deliver"
            /\ current # None
            /\ calls' = calls + 1
            /\ Unwrap(handler'.user_data).log
                  = Append(Unwrap(handler.user_data).log, Head(pending))]_vars
    /\ [][last_stamp # None /\ last_stamp' # None =>
            Unwrap(last_stamp') >= Unwrap(last_stamp)]_vars

\* the callback has been invoked twice, for the two messages of one payload,
\* the second time at a later reading of the clock, after an earlier payload
\* had been decoded
WitnessCallbacksInOrder ==
    /\ calls >= 2
    /\ Len(processed) >= 2
    /\ handler.user_data # None
    /\ Len(Unwrap(handler.user_data).log) >= 2
    /\ last_stamp = Some(MaxClock)
    /\ clock > start

-----------------------------------------------------------------------------
(* Properties of the filter *)

\* the table of the ignore flags: SysEx for 0xF0, Time for 0xF1 and 0xF8,
\* Active Sensing for 0xFE
IgnoredByTable(flags, status) ==
    \/ status = 240 /\ "Sysex" \in flags
    \/ status \in {241, 248} /\ "Time" \in flags
    \/ status = 254 /\ "ActiveSense" \in flags

\* the messages of a sequence that the table does not ignore, in their order
RECURSIVE KeptByTable(_, _)
KeptByTable(flags, messages) ==
    IF messages = << >> THEN << >>
    ELSE (IF IgnoredByTable(flags, Head(messages)[1]) THEN << >> ELSE <<Head(messages)>>)
         \o KeptByTable(flags, Tail(messages))

\* C15: for every ignore set and every payload, the decoder emits no empty
\* message, and once process_notification has gone through the first k decoded
\* messages the callback has been given exactly those of them whose first byte
\* the table does not ignore, each one unchanged and in the decoder's order.
FilterFollowsTable ==
    flt_pc \in {"deliver", "returned"} =>
       LET done == Len(flt_decoded) - Len(flt_pending) IN
       /\ \A i \in 1..Len(flt_decoded) : flt_decoded[i] # << >>
       /\ flt_pending = SubSeq(flt_decoded, done + 1, Len(flt_decoded))
       /\ Unwrap(flt_handler.user_data).log
             = KeptByTable(flt_handler.ignore_flags, SubSeq(flt_decoded, 1, done))
       /\ flt_pc = "returned" => flt_pending = << >>

\* process_notification has returned for a payload that holds a message of
\* every kind, with Time and Active Sensing ignored: the timing clock, the
\* Active Sensing and the time code were not given to the callback, the Note
\* On, the SysEx and the Program Change were
WitnessFilterFollowsTable ==
    /\ flt_pc = "returned"
    /\ flt_handler.ignore_flags = {"Time", "ActiveSense"}
    /\ Len(flt_decoded) = 6
    /\ Unwrap(flt_handler.user_data).log
          = << <<144, 60, 100>>, <<240, 1, 247>>, <<192, 7>> >>

-----------------------------------------------------------------------------
(* Properties of the decoder's status arms *)

\* header, timestamp and one real-time status byte
IsRealTimeFrame(p) ==
    /\ Len(p) = 3
    /\ HighBit(p[1]) /\ HighBit(p[2]) /\ p[3] >= 248

\* header; timestamp and a complete channel-voice message; timestamp and a
\* real-time byte; timestamp and the data bytes of a second message of the
\* same status
IsRealTimeInterleave(p) ==
    /\ Len(p) >= 3
    /\ HighBit(p[1]) /\ HighBit(p[2]) /\ p[3] \in 128..239
    /\ LET n == Unwrap(MidiDataCount(p[3])) IN
       /\ Len(p) = 6 + 2 * n
       /\ AllData(SubSeq(p, 4, 3 + n))
       /\ HighBit(p[4 + n]) /\ p[5 + n] >= 248 /\ HighBit(p[6 + n])
       /\ AllData(SubSeq(p, 7 + n, 6 + 2 * n))

\* C16: a payload that holds one real-time byte is decoded to that byte alone
\* and leaves the running status as it was; and in a payload where a real-time
\* byte stands between a channel-voice message and the data bytes of a second
\* one, the second message is emitted with the status of the first.
RealTimeKeepsRunningStatus ==
    (dec_pc = "decoded" /\ dec_before.sysex_buffer = None) =>
       /\ IsRealTimeFrame(dec_payload) =>
             /\ dec_result.messages = << <<dec_payload[3]>> >>
             /\ dec_result.state.running_status = dec_before.running_status
       /\ IsRealTimeInterleave(dec_payload) =>
             LET n == Unwrap(MidiDataCount(dec_payload[3])) IN
             dec_result.messages =
                << SubSeq(dec_payload, 3, 3 + n),
                   <<dec_payload[5 + n]>>,
                   <<dec_payload[3]>> \o SubSeq(dec_payload, 7 + n, 6 + 2 * n) >>

\* the status bytes without an entry in the table of data-byte counts that are
\* neither 0xF0, 0xF7 nor real-time
UndefinedStatuses == {244, 245}

\* header, timestamp, 0xF4 or 0xF5, and data bytes
IsUndefinedStatusFrame(p) ==
    /\ Len(p) >= 3
    /\ HighBit(p[1]) /\ HighBit(p[2]) /\ p[3] \in UndefinedStatuses
    /\ AllData(SubSeq(p, 4, Len(p)))

\* C17: no emitted message starts with 0xF4 or 0xF5, and a payload that holds
\* only such a status byte and data bytes is decoded to nothing and leaves no
\* running status.
UndefinedStatusDropped ==
    dec_pc = "decoded" =>
       /\ \A i \in 1..Len(dec_result.messages) :
             dec_result.messages[i][1] \notin UndefinedStatuses
       /\ (IsUndefinedStatusFrame(dec_payload) /\ dec_before.sysex_buffer = None) =>
             /\ dec_result.messages = << >>
             /\ dec_result.state.running_status = None

SystemCommonStatuses == {241, 242, 243, 246}

\* header, timestamp, a System Common status byte, and after it no status
\* byte: data bytes, and bytes with the top bit set only one at a time, which
\* are timestamps
IsSystemCommonFrame(p) ==
    /\ Len(p) >= 3
    /\ HighBit(p[1]) /\ HighBit(p[2]) /\ p[3] \in SystemCommonStatuses
    /\ \A i \in 4..(Len(p) - 1) : HighBit(p[i]) => ~HighBit(p[i + 1])

\* C18: a payload of a System Common status byte followed by bytes among which
\* there is no status byte leaves no running status, and none of its messages
\* is a channel-voice message.
SystemCommonClearsRunningStatus ==
    (dec_pc = "decoded" /\ IsSystemCommonFrame(dec_payload)) =>
       /\ dec_result.state.running_status = None
       /\ \A i \in 1..Len(dec_result.messages) :
             dec_result.messages[i][1] \notin 128..239

\* the number of data bytes of p from index i on, up to the next byte with the
\* top bit set
RECURSIVE DataRun(_, _)
DataRun(p, i) == IF i > Len(p) \/ HighBit(p[i]) THEN 0 ELSE 1 + DataRun(p, i + 1)

\* from index i on, p holds only messages cut short: a timestamp, a status
\* byte that takes data bytes, and fewer data bytes than it takes; or a last
\* timestamp
RECURSIVE OnlyCutMessages(_, _)
OnlyCutMessages(p, i) ==
    \/ i > Len(p)
    \/ i = Len(p) /\ HighBit(p[i])
    \/ /\ i < Len(p)
       /\ HighBit(p[i])
       /\ HighBit(p[i + 1])
       /\ MidiDataCount(p[i + 1]) # None
       /\ DataRun(p, i + 2) < Unwrap(MidiDataCount(p[i + 1]))
       /\ OnlyCutMessages(p, i + 2 + DataRun(p, i + 2))

\* header, then one or more messages cut short
IsCutFrame(p) ==
    /\ Len(p) >= 3
    /\ HighBit(p[1])
    /\ OnlyCutMessages(p, 2)

\* C19: a payload whose messages are all cut short, by the end of the payload
\* or by a byte with the top bit set, is decoded to nothing and leaves the
\* parser state as it was: nothing of the messages is kept, so that the
\* payloads that follow are decoded as if it had not arrived.
CutMessagesDropped ==
    (dec_pc = "decoded" /\ IsCutFrame(dec_payload)) =>
       /\ dec_result.messages = << >>
       /\ dec_result.state = dec_before

\* a Note On with one data byte instead of two, cut by a timestamp and followed
\* by a Pitch Bend cut by the end of the payload, was decoded by a connection
\* that has a running status
WitnessCutMessagesDropped ==
    /\ dec_pc = "decoded"
    /\ dec_payload = <<128, 128, 144, 60, 128, 224, 5>>
    /\ dec_before.running_status # None
    /\ dec_result.messages = << >>

-----------------------------------------------------------------------------
(* Properties of the scan *)

\* connect_output_port is running
OutConnecting ==
    out_pc \in {"manager", "adapters", "adapter_get", "start_scan", "find_peripheral",
                "stop_scan", "is_connected", "connect", "discover",
                "characteristic"}

\* C20: once a connection attempt has started a scan, stop_scan is called
\* before the attempt returns, whatever the peripheral lookup and the later
\* steps return: past the lookup, and whenever no attempt is running, there is
\* no scan that was started without stop_scan having been called since.
ScanStoppedOnEveryOutcome ==
    (~OutConnecting \/ out_pc \in {"is_connected", "connect", "discover",
                                   "characteristic"})
       => (out_ble.scanning => out_ble.stop_called)

-----------------------------------------------------------------------------
(* Properties of the teardown *)

\* C21: the input loop is left only towards unsubscribe; unsubscribe is
\* followed by disconnect whether or not it succeeded, and disconnect by the
\* return of Ok(()), so that nothing is reported on the init channel after the
\* loop; close of an output connection attempts unsubscribe and then
\* disconnect, whatever each of them returns, and gives back the MidiOutput.
TeardownUnsubscribesThenDisconnects ==
    /\ [][(WorkerInLoop /\ ~WorkerInLoop') => worker' = "unsubscribe"]_vars
    /\ [][(worker = "unsubscribe" /\ worker' # worker) =>
             (worker' = "disconnect" /\ loop_result' = None)]_vars
    /\ [][(worker = "disconnect" /\ worker' # worker) =>
             (worker' = "returned" /\ loop_result' = Some(Ok))]_vars
    /\ [][(worker = "returned" /\ worker' # worker /\ Unwrap(loop_result) = Ok) =>
             (worker' = "exit" /\ init_sent' = init_sent)]_vars
    /\ []((WorkerPastLoop /\ init_sent # << >> /\ Head(init_sent) = Ok) =>
             (loop_result = Some(Ok) /\ init_sent = <<Ok>>))
    /\ [][(out_pc = "connected" /\ out_pc' \notin {"connected", "sending"}) =>
             /\ out_pc' = "close_disconnect"
             /\ Len(out_ble'.teardown) = 1
             /\ out_ble'.teardown[1].op = "unsubscribe"]_vars
    /\ [][(out_pc = "close_disconnect" /\ out_pc' # out_pc) =>
             /\ out_ble'.teardown = Append(out_ble.teardown, out_ble'.teardown[2])
             /\ out_ble'.teardown[2].op = "disconnect"
             /\ out_outcome' = Some([kind |-> "closed"])
             /\ midi_output' # None]_vars

\* the notification stream ended, unsubscribe failed and the worker is at
\* disconnect
WitnessTeardownUnsubscribesThenDisconnects ==
    /\ worker = "disconnect"
    /\ stream = "ended"
    /\ ~stop.value
    /\ ble.subscribed

-----------------------------------------------------------------------------
(* Properties of the initialisation *)

\* the steps that may follow a step of the initialisation that succeeded
StepsAfter(position) ==
    CASE position = "start_scan" -> {"find_peripheral"}
      [] position = "find_peripheral" -> {"stop_scan"}
      [] position = "stop_scan" -> {"is_connected"}
      [] position = "is_connected" -> {"connect", "discover"}
      [] position = "connect" -> {"discover"}
      [] position = "discover" -> {"characteristic"}
      [] position = "characteristic" -> {"subscribe"}
      [] position = "subscribe" -> {"notifications"}
      [] position = "notifications" -> {"init_ok"}
      [] OTHER -> {}

\* C22: the steps of the initialisation succeed one after the other in the
\* order scan, lookup, connect (taken exactly when the peripheral is not
\* connected), discovery, characteristic, subscribe, notification stream; the
\* success is signalled only after the last of them, with the link up, the
\* subscription made and the stream acquired; connect returns a connection only
\* after the signal, and no callback is invoked before it.
InitSignalledAfterAllSteps ==
    /\ [][(StepsAfter(worker) # {} /\ worker' # worker /\ worker' # "returned") =>
             worker' \in StepsAfter(worker)]_vars
    /\ [][(worker = "is_connected" /\ worker' = "discover") => ble.linked]_vars
    /\ [][(worker = "is_connected" /\ worker' = "connect") => ~ble.linked]_vars
    /\ [](worker = "find_peripheral" => ble.scanning)
    /\ [][(init_sent' # init_sent /\ init_sent' # << >> /\ init_sent'[Len(init_sent')] = Ok) =>
             /\ worker = "init_ok"
             /\ init_sent = << >>
             /\ ble.linked /\ ble.subscribed
             /\ stream # "none"
             /\ calls = 0]_vars
    /\ [](calls > 0 => (init_sent # << >> /\ Head(init_sent) = Ok))
    /\ [](connection # None => init_sent = <<Ok>>)

\* the last connect the caller makes has returned a connection, and the
\* callback has been invoked since
WitnessInitSignalledAfterAllSteps ==
    /\ caller = "connected"
    /\ connects = MaxConnects
    /\ connection # None
    /\ init_sent = <<Ok>>
    /\ calls > 0

-----------------------------------------------------------------------------
(* Properties of the parser state across connections *)

\* header, timestamp, then data bytes with no status byte before them, and no
\* status byte later either: bytes with the top bit set come one at a time and
\* are timestamps
ElidesEveryStatus(p) ==
    /\ Len(p) >= 3
    /\ HighBit(p[2]) /\ ~HighBit(p[3])
    /\ \A i \in 3..(Len(p) - 1) : HighBit(p[i]) => ~HighBit(p[i + 1])

\* C23: every connect makes handler data with no running status and no SysEx
\* in progress, whatever the parser state of the connection before was; and
\* when the first payload a connection decodes has its status bytes elided,
\* nothing is decoded from it and the callback is not invoked.
ParserStateFreshPerConnection ==
    /\ [][connects' # connects /\ worker' = "spawned" =>
             handler'.parser_state = [running_status |-> None, sysex_buffer |-> None]]_vars
    /\ []((Len(processed) = 1 /\ ElidesEveryStatus(processed[1])) =>
             /\ pending = << >>
             /\ calls = 0
             /\ handler.parser_state = [running_status |-> None, sysex_buffer |-> None])

\* the second connection of the caller has decoded, as its first payload, the
\* end frame of a SysEx, which starts with a data byte
WitnessParserStateFreshPerConnection ==
    /\ connects = 2
    /\ caller = "connected"
    /\ processed = << <<128, 128, 2, 247>> >>
    /\ worker = "deliver"

-----------------------------------------------------------------------------
(* Properties of a SysEx sent through the encoder *)

\* C24: when the packets the encoder makes of a SysEx are decoded in order by
\* a connection with a fresh parser state, every packet but the last is
\* decoded to nothing and leaves the SysEx in progress, and the last packet is
\* decoded to the SysEx as it was sent and leaves no SysEx in progress.
LongSysexRoundTrip ==
    (dec_pc = "decoded" /\ enc_packets # << >>) =>
       IF dec_count < Len(enc_packets)
       THEN /\ dec_result.messages = << >>
            /\ dec_result.state.sysex_buffer # None
       ELSE /\ dec_result.messages = <<enc_message>>
            /\ dec_result.state.sysex_buffer = None
            /\ dec_result.state.running_status = None

\* the third and last packet of the longest SysEx has been decoded
WitnessLongSysexRoundTrip ==
    /\ dec_pc = "decoded"
    /\ Len(enc_message) = MaxSysexLen
    /\ Len(enc_packets) >= 3
    /\ dec_count = Len(enc_packets)
    /\ dec_result.messages = <<enc_message>>

-----------------------------------------------------------------------------
(* Properties of a real-time message inside a SysEx *)

\* header, timestamp, 0xF0 and data bytes; a timestamp and a real-time status
\* byte; the data bytes the SysEx goes on with; a timestamp and 0xF7
IsSysexWithRealTime(p) ==
    /\ Len(p) >= 7
    /\ HighBit(p[1]) /\ HighBit(p[2]) /\ p[3] = 240
    /\ LET k == DataRun(p, 4) IN
       /\ Len(p) >= 7 + k
       /\ HighBit(p[4 + k]) /\ p[5 + k] >= 248
       /\ LET j == DataRun(p, 6 + k) IN
          /\ Len(p) = 7 + k + j
          /\ HighBit(p[6 + k + j]) /\ p[7 + k + j] = 247

\* C25: a payload that holds a SysEx with a real-time message inside it is
\* decoded to the real-time message and then the SysEx, which holds the data
\* bytes that stand before and after the real-time message in their order.
RealTimeInsideSysex ==
    (dec_pc = "decoded" /\ dec_before.sysex_buffer = None
        /\ IsSysexWithRealTime(dec_payload)) =>
       LET k == DataRun(dec_payload, 4)
           j == DataRun(dec_payload, 6 + k)
       IN dec_result.messages =
             << <<dec_payload[5 + k]>>,
                <<240>> \o SubSeq(dec_payload, 4, 3 + k)
                        \o SubSeq(dec_payload, 6 + k, 5 + k + j) \o <<247>> >>

-----------------------------------------------------------------------------
(* Properties of the link *)

\* C26: when connect returns an error, the link to the peripheral that this
\* connect call had opened is not up any more.
NoLinkLeftByFailedConnect ==
    (out_pc = "idle" /\ out_outcome # None /\ Unwrap(out_outcome).kind = "connect_error")
       => ~(out_ble.opened /\ out_ble.linked)

-----------------------------------------------------------------------------
(* Properties of the init channel *)

\* the worker is between the success signal and the return of run_input_loop
WorkerSignalledOk ==
    worker \in {"start", "select", "process", "deliver", "unsubscribe", "disconnect"}

\* C27: at most one value is ever sent on the init channel of a connect call;
\* it is Ok(()) from the moment the worker enters the loop, whatever ends the
\* loop, and nothing is sent after it; once the thread closure is over
\* exactly one value has been sent; and a connect that waits on the channel
\* gets a value to receive.
OneInitOutcome ==
    /\ [](Len(init_sent) <= 1)
    /\ [](WorkerSignalledOk => init_sent = <<Ok>>)
    /\ [](worker \in {"exit", "finished"} => Len(init_sent) = 1)
    /\ []((WorkerPastLoop /\ loop_result = Some(Ok)) => init_sent = <<Ok>>)
    /\ [][(init_sent # << >> /\ connects' = connects) => init_sent' = init_sent]_vars
    /\ ((caller = "connect_recv") ~> (init_chan # << >> \/ caller # "connect_recv"))

\* the notification stream ended and the thread has finished while the caller
\* holds the connection: Ok(()) is all that was sent
WitnessOneInitOutcome ==
    /\ caller = "connected"
    /\ worker = "finished"
    /\ stream = "ended"
    /\ loop_result = Some(Ok)
    /\ init_sent = <<Ok>>

=============================================================================
